---- MODULE Spec2Model ----
(***************************************************************************)
(* A model of the jira_rag question pipeline: ChatService.answer           *)
(* (retrieval, live enrichment, dedup, prompt stack, generation call with  *)
(* model fallback, post-processing) and MultiSourceRetriever.retrieve.     *)
(*                                                                         *)
(* Conventions.                                                            *)
(*   - A Python str whose characters matter (persona, intensity, language) *)
(*     is a sequence of one-character strings; str.strip and str.lower are *)
(*     computed on it.                                                     *)
(*   - Optional[X] arguments are sequences of length <= 1: <<>> is None.   *)
(*   - A hit (a dict) is a function from field names to values; a missing  *)
(*     field reads as PyNone, as dict.get does.                            *)
(*   - Temperatures are in hundredths (0.35 is 35).                        *)
(***************************************************************************)
EXTENDS Integers, Sequences, FiniteSets, TLC

VARIABLES
    knobs,       \* the arguments of ChatService.answer
    jira,        \* the tracker client handed to ChatService (or none) and the tracker's issues
    index,       \* the FaissIndexer: loaded flag and metadata, in similarity order for the question
    pc,          \* where answer() is
    hits,        \* answer()'s local `hits`
    base_hits,   \* HybridRetriever.retrieve's `base_hits`
    batches,     \* _fetch_live_fields: the batches of key_list still to request
    live_data,   \* _fetch_live_fields: `live_data`
    jira_calls,  \* every jira.search call made, in order, with what it did
    messages,    \* the messages built by _build_prompt
    calls,       \* every chat.completions.create call made, in order, with what it did
    resp,        \* the content of the response that was accepted
    result,      \* what answer() returned
    error,       \* the exception answer() raised, "" when none
    indexers,    \* MultiSourceRetriever.indexers
    mq,          \* MultiSourceRetriever.retrieve: its arguments and loop position
    merged,      \* MultiSourceRetriever.retrieve: `merged`
    mret,        \* MultiSourceRetriever.retrieve: outcome
    disk,        \* the files <stem>.faiss and <stem>.jsonl of the FaissIndexer
    ixerr,       \* the exception the last FaissIndexer add, save or load raised, "" when none
    http,        \* one JiraClient._get call: what its attempts met, and where it stands
    crawl,       \* one _flex_search call: loop index, search calls made, sleeps, outcome
    pager,       \* one JiraClient.search iteration: its locals, requests, pages and yields
    graph        \* one MSGraphClient.query_msgraph call: its locals and its outcome

vars == <<knobs, jira, index, pc, hits, base_hits, batches, live_data, jira_calls,
          messages, calls, resp, result, error, indexers, mq, merged, mret, disk, ixerr,
          http, crawl, pager, graph>>

answerVars == <<knobs, jira, index, pc, hits, base_hits, batches, live_data, jira_calls,
                messages, calls, resp, result, error>>

multiVars == <<indexers, mq, merged, mret>>

storeVars == <<disk, ixerr>>

clientVars == <<http, crawl, pager, graph>>

-----------------------------------------------------------------------------
(* Python values *)

PyNone == "<None>"

\* bool(v) for a str-or-None value
Truthy(v) == v # PyNone /\ v # ""

\* dict.get(f)
Get(h, f) == IF f \in DOMAIN h THEN h[f] ELSE PyNone

\* a or b
Or(a, b) == IF Truthy(a) THEN a ELSE b

\* Optional[X]
NoneOpt == <<>>

Some(x) == <<x>>

IsNone(o) == o = <<>>

Val(o) == o[1]

Min(a, b) == IF a <= b THEN a ELSE b

-----------------------------------------------------------------------------
(* str.strip, str.lower on character sequences *)

Whitespace == {" ", "\t", "\n"}

UpperLetters == <<"A", "B", "C", "D", "E", "F", "G", "H", "I", "J", "K", "L", "M",
                  "N", "O", "P", "Q", "R", "S", "T", "U", "V", "W", "X", "Y", "Z">>

LowerLetters == <<"a", "b", "c", "d", "e", "f", "g", "h", "i", "j", "k", "l", "m",
                  "n", "o", "p", "q", "r", "s", "t", "u", "v", "w", "x", "y", "z">>

LowerChar(c) ==
    IF \E i \in 1..Len(UpperLetters) : UpperLetters[i] = c
    THEN LowerLetters[CHOOSE i \in 1..Len(UpperLetters) : UpperLetters[i] = c]
    ELSE c

UpperChar(c) ==
    IF \E i \in 1..Len(LowerLetters) : LowerLetters[i] = c
    THEN UpperLetters[CHOOSE i \in 1..Len(LowerLetters) : LowerLetters[i] = c]
    ELSE c

Lower(s) == [i \in 1..Len(s) |-> LowerChar(s[i])]

Upper(s) == [i \in 1..Len(s) |-> UpperChar(s[i])]

RECURSIVE LStrip(_)
LStrip(s) == IF s # <<>> /\ Head(s) \in Whitespace THEN LStrip(Tail(s)) ELSE s

RECURSIVE RStrip(_)
RStrip(s) ==
    IF s # <<>> /\ s[Len(s)] \in Whitespace THEN RStrip(SubSeq(s, 1, Len(s) - 1)) ELSE s

Strip(s) == RStrip(LStrip(s))

StartsWith(s, p) == Len(p) <= Len(s) /\ SubSeq(s, 1, Len(p)) = p

\* s.split("-")[0]
RECURSIVE BeforeDash(_)
BeforeDash(s) ==
    IF s = <<>> \/ Head(s) = "-" THEN <<>> ELSE <<Head(s)>> \o BeforeDash(Tail(s))

S_none == <<"n", "o", "n", "e">>
S_default == <<"d", "e", "f", "a", "u", "l", "t">>
S_off == <<"o", "f", "f">>
S_no == <<"n", "o">>
S_yoda == <<"y", "o", "d", "a">>
S_pirate == <<"p", "i", "r", "a", "t", "e">>
S_shakespeare == <<"s", "h", "a", "k", "e", "s", "p", "e", "a", "r", "e">>
S_executive_snark == <<"e", "x", "e", "c", "u", "t", "i", "v", "e", "-", "s", "n", "a", "r", "k">>
S_bard == <<"b", "a", "r", "d">>
S_light == <<"l", "i", "g", "h", "t">>
S_medium == <<"m", "e", "d", "i", "u", "m">>
S_heavy == <<"h", "e", "a", "v", "y">>
S_en == <<"e", "n">>
S_fr == <<"f", "r">>
S_fr_ca == <<"f", "r", "-", "c", "a">>
S_fr_CA == <<"f", "r", "-", "C", "A">>
S_es == <<"e", "s">>
S_de == <<"d", "e">>
S_it == <<"i", "t">>
S_pt_br == <<"p", "t", "-", "b", "r">>
S_pt_BR == <<"p", "t", "-", "B", "R">>
S_ja == <<"j", "a">>
S_ko == <<"k", "o">>
S_zh_cn == <<"z", "h", "-", "c", "n">>
S_zh_CN == <<"z", "h", "-", "C", "N">>
S_zh == <<"z", "h">>
S_cn == <<"c", "n">>
S_qc == <<"q", "c">>
S_english == <<"e", "n", "g", "l", "i", "s", "h">>
S_francais == <<"f", "r", "a", "n", "c", "a", "i", "s">>
S_francais_cedilla == <<"f", "r", "a", "n", "c-cedilla", "a", "i", "s">>
S_francais_quebec ==
    <<"f", "r", "a", "n", "c", "a", "i", "s", " ", "(", "q", "u", "e", "b", "e", "c", ")">>
S_francais_quebec_accents ==
    <<"f", "r", "a", "n", "c-cedilla", "a", "i", "s", " ", "(", "q", "u", "e-acute", "b", "e", "c", ")">>
S_quebec_french == <<"q", "u", "e", "b", "e", "c", " ", "f", "r", "e", "n", "c", "h">>

-----------------------------------------------------------------------------
(* ChatService: persona and intensity normalisation *)

\* a normaliser that lower-cases but does not strip
NormalizeWithoutStrip(character) ==
    IF IsNone(character) THEN NoneOpt
    ELSE LET s == Lower(Val(character))
         IN  IF s \in {<<>>, S_none, S_default, S_off, S_no} THEN NoneOpt ELSE Some(s)

\* ChatService._normalize_persona
_normalize_persona(character) ==
    IF IsNone(character) THEN NoneOpt
    ELSE LET s == Lower(Strip(Val(character)))
         IN  IF s \in {<<>>, S_none, S_default, S_off, S_no} THEN NoneOpt ELSE Some(s)

\* answer(): the legacy `pirate` shim, then the normaliser
EffectiveCharacter(character, pirate) ==
    IF IsNone(character) /\ ~IsNone(pirate)
    THEN _normalize_persona(IF Val(pirate) THEN Some(S_pirate) ELSE NoneOpt)
    ELSE _normalize_persona(character)

\* (intensity or "medium").strip().lower(), unknown values read as medium
NormalizeLevel(intensity) ==
    LET raw == IF IsNone(intensity) \/ Val(intensity) = <<>> THEN S_medium ELSE Val(intensity)
        lvl == Lower(Strip(raw))
    IN  IF lvl \in {S_light, S_medium, S_heavy} THEN lvl ELSE S_medium

\* a level that is never escalated
EffectiveLevelPlain(character, intensity, multi_format) == NormalizeLevel(intensity)

\* answer(): `lvl`, with the Yoda multi-format escalation
EffectiveLevel(character, intensity, multi_format) ==
    LET lvl == NormalizeLevel(intensity)
    IN  IF character = Some(S_yoda) /\ multi_format /\ lvl = S_medium THEN S_heavy ELSE lvl

-----------------------------------------------------------------------------
(* ChatService: language directive and localized headings *)

Block(tag, args) == [tag |-> tag, args |-> args]

\* _language_directive: `alias`
LanguageAlias ==
    <<  <<S_english, S_en>>, <<S_francais, S_fr>>, <<S_francais_cedilla, S_fr>>,
        <<S_francais_quebec, S_fr_CA>>, <<S_francais_quebec_accents, S_fr_CA>>,
        <<S_quebec_french, S_fr_CA>>, <<S_qc, S_fr_CA>>, <<S_pt_br, S_pt_BR>>,
        <<S_zh, S_zh_CN>>, <<S_cn, S_zh_CN>>  >>

\* alias.get(lang.lower(), lang)
LanguageCode(lang) ==
    LET l == Lower(lang)
    IN  IF \E i \in 1..Len(LanguageAlias) : LanguageAlias[i][1] = l
        THEN LanguageAlias[CHOOSE i \in 1..Len(LanguageAlias) : LanguageAlias[i][1] = l][2]
        ELSE lang

\* a language directive that is written for an empty language too
LanguageDirectiveAlways(language) ==
    Some(Block("language", <<IF IsNone(language) THEN <<>> ELSE LanguageCode(Strip(Val(language)))>>))

\* ChatService._language_directive: None, or the LANGUAGE POLICY block naming `code`
_language_directive(language) ==
    IF IsNone(language) \/ Val(language) = <<>> THEN NoneOpt
    ELSE Some(Block("language", <<LanguageCode(Strip(Val(language)))>>))

\* the headings_map of _localized_headings_jira
HeadingsJira ==
    <<  <<S_en, <<"Detailed Summary", "Technical Summary", "Management Summary",
                  "Overall Project Summary">> >>,
        <<S_fr, <<"Resume detaille", "Resume technique", "Resume pour la direction",
                  "Resume global du projet">> >>,
        <<S_fr_ca, <<"Resume detaille", "Resume technique", "Resume pour la direction",
                     "Resume global du projet">> >>,
        <<S_es, <<"Resumen detallado", "Resumen tecnico", "Resumen para la direccion",
                  "Resumen general del proyecto">> >>,
        <<S_de, <<"Detaillierte Zusammenfassung", "Technische Zusammenfassung",
                  "Management-Zusammenfassung", "Gesamtzusammenfassung des Projekts">> >>,
        <<S_it, <<"Riepilogo dettagliato", "Riepilogo tecnico", "Riepilogo per la direzione",
                  "Riepilogo complessivo del progetto">> >>,
        <<S_pt_br, <<"Resumo detalhado", "Resumo tecnico", "Resumo para a diretoria",
                     "Resumo geral do projeto">> >>,
        <<S_ja, <<"ja: detailed summary", "ja: technical summary", "ja: management summary",
                  "ja: overall project summary">> >>,
        <<S_ko, <<"ko: detailed summary", "ko: technical summary", "ko: management summary",
                  "ko: overall project summary">> >>,
        <<S_zh_cn, <<"zh-cn: detailed summary", "zh-cn: technical summary",
                     "zh-cn: management summary", "zh-cn: overall project summary">> >>  >>

\* the headings_map of _localized_headings_people
HeadingsPeople ==
    <<  <<S_en, <<"People Overview", "Managers & Leads (Inferred)", "Org Signals",
                  "Actions & Follow-ups">> >>,
        <<S_fr, <<"Apercu des personnes", "Gestionnaires et responsables (inferes)",
                  "Signaux d'organisation", "Actions et suivis">> >>,
        <<S_fr_ca, <<"Apercu des personnes", "Gestionnaires et responsables (inferes)",
                     "Signaux d'organisation", "Actions et suivis">> >>,
        <<S_es, <<"Resumen de personas", "Gerentes y lideres (inferidos)",
                  "Senales de organizacion", "Acciones y seguimientos">> >>  >>

\* the headings_map of _localized_headings_signins
HeadingsSignins ==
    <<  <<S_en, <<"Auth Activity Overview", "Failures & Risk Signals", "Geo & Device Patterns",
                  "Actions & Queries">> >>,
        <<S_fr, <<"Apercu de l'activite d'authentification", "Echecs et signaux de risque",
                  "Schemas geo et appareils", "Actions et requetes">> >>,
        <<S_fr_ca, <<"Apercu de l'activite d'authentification", "Echecs et signaux de risque",
                     "Schemas geo et appareils", "Actions et requetes">> >>,
        <<S_es, <<"Resumen de actividad de autenticacion", "Fallos y senales de riesgo",
                  "Patrones geograficos y de dispositivos", "Acciones y consultas">> >>  >>

InMap(map, code) == \E i \in 1..Len(map) : map[i][1] = code

Lookup(map, code) == map[CHOOSE i \in 1..Len(map) : map[i][1] = code][2]

\* a lookup that never falls back from a regional code to its base language
LocalizedHeadingsExact(map, language) ==
    LET code == Lower(IF IsNone(language) \/ Val(language) = <<>> THEN S_en ELSE Val(language))
    IN  IF InMap(map, code) THEN Lookup(map, code) ELSE Lookup(map, S_en)

\* the body shared by the three _localized_headings_* methods
LocalizedHeadings(map, language) ==
    LET code0 == Lower(IF IsNone(language) \/ Val(language) = <<>> THEN S_en ELSE Val(language))
        base  == BeforeDash(code0)
        code  == IF ~InMap(map, code0) /\ (\E i \in 1..Len(code0) : code0[i] = "-")
                    /\ InMap(map, base)
                 THEN base ELSE code0
    IN  IF InMap(map, code) THEN Lookup(map, code) ELSE Lookup(map, S_en)

_localized_headings_jira(language) == LocalizedHeadings(HeadingsJira, language)

_localized_headings_people(language) == LocalizedHeadings(HeadingsPeople, language)

_localized_headings_signins(language) == LocalizedHeadings(HeadingsSignins, language)

\* ChatService._format_lock_text: the FORMAT LOCK block with the four numbered headings
_format_lock_text(language, datasource) ==
    LET h == IF datasource = "people" THEN _localized_headings_people(language)
             ELSE IF datasource = "signins" THEN _localized_headings_signins(language)
             ELSE _localized_headings_jira(language)
    IN  Block("format_lock", << <<"1", h[1]>>, <<"2", h[2]>>, <<"3", h[3]>>, <<"4", h[4]>> >>)

-----------------------------------------------------------------------------
(* ChatService: persona blocks and base instructions *)

\* a quota table that gives every level the same quota
QuotaFlat(lvl) == 2

\* the quota table {"light": 1, "medium": 2, "heavy": 3}[lvl]
Quota(lvl) == IF lvl = S_light THEN 1 ELSE IF lvl = S_medium THEN 2 ELSE 3

NamedPersonas == {S_pirate, S_yoda, S_shakespeare, S_executive_snark}

\* ChatService._persona_instructions for a non-empty character: the persona text
\* (a named one, or the generic one quoting the name), its quota, then the style
\* rules, guardrails and self-check sections
_persona_instructions(character, intensity) ==
    LET c   == Lower(Strip(character))
        lvl == NormalizeLevel(Some(intensity))
    IN  Block("persona",
              << IF c \in NamedPersonas THEN c ELSE <<"generic">> \o character,
                 <<"quota", ToString(Quota(lvl))>>,
                 <<"style rules">>, <<"truthfulness">>, <<"self-check">> >>)

\* ChatService._persona_opener
_persona_opener(character, intensity) ==
    LET key == Lower(Strip(character))
        lvl == Lower(Strip(intensity))
    IN  IF key \notin NamedPersonas THEN NoneOpt
        ELSE IF lvl = S_heavy /\ key = S_yoda THEN Some(<<"H", "r", "r", "r", "m", ".">>)
        ELSE IF lvl = S_heavy /\ key = S_pirate THEN Some(<<"A", "r", "r", "r", "!">>)
        ELSE IF key = S_yoda THEN Some(<<"H", "m", "m", ".">>)
        ELSE IF key = S_pirate THEN Some(<<"A", "r", "r", "r", ".">>)
        ELSE IF key = S_shakespeare THEN Some(<<"F", "o", "r", "s", "o", "o", "t", "h", ",">>)
        ELSE Some(<<"S", "h", "o", "r", "t", " ", "v", "e", "r", "s", "i", "o", "n", ":">>)

\* base instructions that put the four-section text before the role
MakeSystemPromptFormatFirst(multi_format, role, datasource) ==
    Block("base",
          << << IF datasource = "people"
                THEN (IF multi_format THEN "people four sections" ELSE "people")
                ELSE IF datasource = "signins"
                THEN (IF multi_format THEN "signins four sections" ELSE "signins")
                ELSE IF multi_format THEN "jira four sections"
                ELSE IF role = Some("developer") THEN "jira developer"
                ELSE IF role = Some("manager") THEN "jira manager"
                ELSE IF role = Some("executive") THEN "jira executive"
                ELSE "jira verbose analyst" >> >>)

\* ChatService._make_system_prompt: which base instructions text is returned
_make_system_prompt(multi_format, role, datasource) ==
    Block("base",
          << << IF datasource = "people"
                THEN (IF multi_format THEN "people four sections" ELSE "people")
                ELSE IF datasource = "signins"
                THEN (IF multi_format THEN "signins four sections" ELSE "signins")
                ELSE IF role = Some("developer") THEN "jira developer"
                ELSE IF role = Some("manager") THEN "jira manager"
                ELSE IF role = Some("executive") THEN "jira executive"
                ELSE IF multi_format THEN "jira four sections"
                ELSE "jira verbose analyst" >> >>)

PersonaReinforcement == Block("persona_reinforcement", <<>>)

HumorRule == Block("humor", <<>>)

HumorLanguage == Block("humor_language", <<>>)

PersonaReminder == Block("persona_reminder", <<>>)

\* a system prompt stack that carries the humor rule whatever the joke flag says
SystemTopLinesAlwaysJoke(ds, character, lvl, language, multi_format, role, patricize) ==
    _language_directive(language)
    \o (IF ~IsNone(character)
        THEN <<_persona_instructions(Val(character), lvl), PersonaReinforcement>> ELSE <<>>)
    \o (IF multi_format THEN <<_format_lock_text(language, ds)>> ELSE <<>>)
    \o <<HumorRule>>
    \o <<_make_system_prompt(multi_format, role, ds)>>

\* a system prompt stack that remembers an earlier question: once the service has
\* made a call, the humor rule is carried whatever the joke flag says
SystemTopLinesRemembering(ds, character, lvl, language, multi_format, role, patricize) ==
    _language_directive(language)
    \o (IF ~IsNone(character)
        THEN <<_persona_instructions(Val(character), lvl), PersonaReinforcement>> ELSE <<>>)
    \o (IF multi_format THEN <<_format_lock_text(language, ds)>> ELSE <<>>)
    \o (IF patricize \/ calls # <<>> THEN <<HumorRule>> ELSE <<>>)
    \o <<_make_system_prompt(multi_format, role, ds)>>

\* answer(): `system_top_lines`, the blocks joined into the first system message
SystemTopLines(ds, character, lvl, language, multi_format, role, patricize) ==
    LET lang_line     == _language_directive(language)
        role_base     == _make_system_prompt(multi_format, role, ds)
        format_lock   == IF multi_format THEN Some(_format_lock_text(language, ds)) ELSE NoneOpt
        persona_block == IF ~IsNone(character)
                         THEN Some(_persona_instructions(Val(character), lvl)) ELSE NoneOpt
    IN  lang_line
        \o (IF ~IsNone(persona_block) THEN persona_block \o <<PersonaReinforcement>> ELSE <<>>)
        \o format_lock
        \o (IF patricize
            THEN <<HumorRule>>
                 \o (IF ~IsNone(language) /\ Val(language) # <<>> THEN <<HumorLanguage>> ELSE <<>>)
            ELSE <<>>)
        \o <<role_base>>

-----------------------------------------------------------------------------
(* ChatService.answer: dedup *)

\* how an f-string prints a str-or-None value
Fmt(v) == IF v = PyNone THEN "None" ELSE v

\* h.get(f, default): the default only when the field is missing
GetOr(h, f, default) == IF f \in DOMAIN h THEN h[f] ELSE default

\* the key with every fallback left out: the first field of each kind only
DedupeKeyPrimaryOnly(h, ds) ==
    IF ds = "people" THEN Get(h, "userPrincipalName")
    ELSE IF ds = "signins" THEN Get(h, "id")
    ELSE Get(h, "key")

\* answer(): `dedupe_key` of one hit
DedupeKey(h, ds) ==
    IF ds = "people"
    THEN Or(Get(h, "userPrincipalName"),
            Or(Get(h, "mail"), Or(Get(h, "displayName"), Or(Get(h, "id"), Get(h, "document")))))
    ELSE IF ds = "signins"
    THEN Or(Get(h, "id"),
            Or(Fmt(Get(h, "userPrincipalName")) \o "|" \o Fmt(Get(h, "createdDateTime"))
                   \o "|" \o Fmt(Get(h, "appDisplayName")),
               Get(h, "document")))
    ELSE Or(Get(h, "key"), Get(h, "issue_key"))

\* answer(): `kstr`, None when the key is falsy
Kstr(h, ds) == IF Truthy(DedupeKey(h, ds)) THEN Some(DedupeKey(h, ds)) ELSE NoneOpt

\* answer(): the dedupe loop over the hits still to visit
RECURSIVE DedupeLoop(_, _, _, _)
DedupeLoop(rest, ds, seen, unique_hits) ==
    IF rest = <<>> THEN unique_hits
    ELSE LET h    == Head(rest)
             kstr == Kstr(h, ds)
         IN  IF IsNone(kstr) \/ Val(kstr) \notin seen
             THEN DedupeLoop(Tail(rest), ds,
                             IF IsNone(kstr) THEN seen ELSE seen \cup {Val(kstr)},
                             Append(unique_hits, h))
             ELSE DedupeLoop(Tail(rest), ds, seen, unique_hits)

\* the loop with `seen.add(kstr)` left out: nothing is ever seen twice
DedupeNothingSeen(hs, ds) == hs

Dedupe(hs, ds) == DedupeLoop(hs, ds, {}, <<>>)

-----------------------------------------------------------------------------
(* ChatService._build_prompt *)

\* str.strip on the document texts of the model
StripText(v) ==
    IF v = "  notes  " THEN "notes" ELSE IF v = "   " THEN "" ELSE v

\* (h.get("document") or "").strip()
DocText(h) == StripText(Or(Get(h, "document"), ""))

RECURSIVE JoinComma(_)
JoinComma(list) ==
    IF list = <<>> THEN ""
    ELSE IF Len(list) = 1 THEN list[1]
    ELSE list[1] \o ", " \o JoinComma(Tail(list))

Dash(v) == Or(v, "-")

\* _build_prompt: the context block of one hit
RenderHit(h, ds, verbose) ==
    IF ds = "people"
    THEN LET name     == Dash(Get(h, "displayName"))
             upn      == Or(Get(h, "userPrincipalName"), Dash(Get(h, "mail")))
             email    == Dash(Get(h, "mail"))
             title    == Dash(Get(h, "jobTitle"))
             dept     == Dash(Get(h, "department"))
             acct     == Get(h, "accountEnabled")
             acct_str == IF acct = "True" THEN "Enabled"
                         ELSE IF acct = "False" THEN "Disabled" ELSE "-"
         IN  IF verbose
             THEN <<"people verbose", name, upn, title, dept, acct_str, email,
                    Or(DocText(h), "--")>>
             ELSE <<"people compact", name, title, dept, email, upn, acct_str>>
    ELSE IF ds = "signins"
    THEN LET when    == Dash(Get(h, "createdDateTime"))
             app     == Dash(Get(h, "appDisplayName"))
             uname   == Dash(Get(h, "userDisplayName"))
             upn     == Dash(Get(h, "userPrincipalName"))
             ip      == Dash(Get(h, "ipAddress"))
             cap     == Dash(Get(h, "clientAppUsed"))
             osn     == Dash(Get(h, "operatingSystem"))
             brw     == Dash(Get(h, "browser"))
             city    == Dash(Get(h, "city"))
             country == Dash(Get(h, "countryOrRegion"))
             res     == Dash(Get(h, "result"))
         IN  IF verbose
             THEN <<"signins verbose", when, app, uname, upn, res, ip, cap, osn, brw, city,
                    country, Or(DocText(h), "--")>>
             ELSE <<"signins compact", when, app, uname, upn, res, ip, city, country, cap,
                    osn, brw>>
    ELSE LET status     == Or(Get(h, "live_status"), Dash(Get(h, "status")))
             assignee   == Or(Get(h, "live_assignee"), Dash(Get(h, "assignee")))
             reporter   == Dash(Get(h, "reporter"))
             priority   == Or(Get(h, "live_priority"), Dash(Get(h, "priority")))
             resolution == Dash(Get(h, "resolution"))
             created    == Dash(Get(h, "created"))
             updated    == Or(Get(h, "live_updated"), Dash(Get(h, "updated")))
             labels     == Dash(JoinComma(GetOr(h, "labels", <<>>)))
             comps      == Dash(JoinComma(GetOr(h, "components", <<>>)))
             fixes      == Dash(JoinComma(GetOr(h, "fix_versions", <<>>)))
             doc_text   == IF DocText(h) # "" THEN DocText(h)
                           ELSE "No description provided: "
                                    \o Fmt(GetOr(h, "summary", "Untitled")) \o "/"
                                    \o Fmt(GetOr(h, "project_key", "-")) \o "/"
                                    \o Fmt(GetOr(h, "issue_type", "-")) \o "/"
                                    \o status \o "/" \o updated
         IN  IF verbose
             THEN <<"jira verbose", Fmt(GetOr(h, "key", "UNKNOWN")),
                    Fmt(GetOr(h, "issue_type", "-")), Fmt(GetOr(h, "project_key", "-")),
                    assignee, reporter, status, resolution, priority, created, updated,
                    labels, comps, fixes, doc_text>>
             ELSE <<"jira compact", Fmt(GetOr(h, "key", "UNKNOWN")),
                    Fmt(GetOr(h, "summary", "No summary")), status, assignee, updated>>

\* _build_prompt: the Context message body, one rendered block per hit, in hit order
ContextBlock(hs, ds, verbose) ==
    Block("context", [i \in 1..Len(hs) |-> RenderHit(hs[i], ds, verbose)])

Message(role, content) == [role |-> role, content |-> content]

\* a message list with the persona reminder ahead of the format-lock restatement
BuildPromptReminderFirst(system_prompt, question, hs, verbose, format_lock, datasource, persona_reminder) ==
    <<Message("system", system_prompt), Message("system", <<ContextBlock(hs, datasource, verbose)>>)>>
    \o (IF ~IsNone(persona_reminder) THEN <<Message("system", persona_reminder)>> ELSE <<>>)
    \o (IF ~IsNone(format_lock) THEN <<Message("system", format_lock)>> ELSE <<>>)
    \o <<Message("user", <<Block("question", <<question>>)>>)>>

\* ChatService._build_prompt
_build_prompt(system_prompt, question, hs, verbose, format_lock, datasource, persona_reminder) ==
    <<Message("system", system_prompt), Message("system", <<ContextBlock(hs, datasource, verbose)>>)>>
    \o (IF ~IsNone(format_lock) THEN <<Message("system", format_lock)>> ELSE <<>>)
    \o (IF ~IsNone(persona_reminder) THEN <<Message("system", persona_reminder)>> ELSE <<>>)
    \o <<Message("user", <<Block("question", <<question>>)>>)>>

-----------------------------------------------------------------------------
(* FaissIndexer.search and HybridRetriever *)

\* _fetch_live_fields: batch_size
BatchSize == 50

\* HybridRetriever.FRESH_FIELDS
FRESH_FIELDS == <<"status", "assignee", "priority", "updated">>

\* a search that returns every record of the index, whatever k
SearchAll(ix, k) ==
    [i \in 1..Len(ix.meta) |->
        [f \in DOMAIN ix.meta[i] \cup {"score"} |->
            IF f = "score" THEN ix.dists[i] ELSE ix.meta[i][f]]]

\* FaissIndexer.search on a loaded index: the k nearest metadata records, each copied
\* and given its score
Search(ix, k) ==
    [i \in 1..Min(k, Len(ix.meta)) |->
        [f \in DOMAIN ix.meta[i] \cup {"score"} |->
            IF f = "score" THEN ix.dists[i] ELSE ix.meta[i][f]]]

\* HybridRetriever.__init__: source_hint, from the argument (ChatService passes none)
\* or from the indexer's `stem` attribute (FaissIndexer has none)
SourceHint == ""

\* HybridRetriever._should_enrich_jira
_should_enrich_jira(jr) == jr.client /\ SourceHint \notin {"people", "msgraph", "hr"}

\* retrieve(): key = h.get("key") or h.get("issue_key")
HitKey(h) == Or(Get(h, "key"), Get(h, "issue_key"))

\* retrieve(): the keys found in the query (KEY_RE) and on the hits
CandidateKeys(question, hs) ==
    question.keys \cup {HitKey(hs[i]) : i \in {j \in 1..Len(hs) : Truthy(HitKey(hs[j]))}}

\* the subsets of S with r elements
RECURSIVE KSubsets(_, _)
KSubsets(S, r) ==
    IF r = 0 THEN {{}}
    ELSE UNION {{T \cup {x} : x \in S \ T} : T \in KSubsets(S, r - 1)}

\* _fetch_live_fields: the ways key_list, built by iterating a set, is cut into
\* batches of batch_size (the iteration order of a set of str is not fixed): the
\* first batch_size keys, then the batches of the rest
RECURSIVE KeyBatches(_)
KeyBatches(keys) ==
    LET key_set == {k \in keys : Truthy(k)}
        n       == Cardinality(key_set)
    IN  IF n = 0 THEN {<<>>}
        ELSE IF n <= BatchSize THEN {<<key_set>>}
        ELSE UNION {{<<key_set \ T>> \o p : p \in KeyBatches(T)} :
                    T \in KSubsets(key_set, n - BatchSize)}

\* _fetch_live_fields: the live_data entry built from one issue of the response
LiveEntry(issue) ==
    [live_status   |-> issue.status,
     live_assignee |-> issue.assignee,
     live_priority |-> issue.priority,
     live_updated  |-> issue.updated]

\* _fetch_live_fields: live_data after the issues of one response are read
WithResults(ld, issues, batch) ==
    LET found == batch \cap DOMAIN issues
    IN  [k \in DOMAIN ld \cup found |-> IF k \in found THEN LiveEntry(issues[k]) ELSE ld[k]]

\* a merge that returns the overlay in place of the hit
MergeHitReplacing(h, live_map) ==
    LET key == HitKey(h)
    IN  IF Truthy(key) /\ key \in DOMAIN live_map THEN live_map[key] ELSE h

\* retrieve(): meta = dict(h); meta.update(live) when the hit's key has a truthy entry
MergeHit(h, live_map) ==
    LET key == HitKey(h)
    IN  IF Truthy(key) /\ key \in DOMAIN live_map
        THEN [f \in DOMAIN h \cup DOMAIN live_map[key] |->
                 IF f \in DOMAIN live_map[key] THEN live_map[key][f] ELSE h[f]]
        ELSE h

\* retrieve(): `enriched`
Enriched(hs, live_map) == [i \in 1..Len(hs) |-> MergeHit(hs[i], live_map)]

-----------------------------------------------------------------------------
(* ChatService.answer: generation parameters, post-processing, result *)

S_jira == <<"j", "i", "r", "a">>
S_people == <<"p", "e", "o", "p", "l", "e">>
S_signins == <<"s", "i", "g", "n", "i", "n", "s">>

\* answer(): ds = (datasource or "jira").strip().lower(), anything unknown is jira
Ds(datasource) ==
    LET d == Lower(Strip(IF IsNone(datasource) \/ Val(datasource) = <<>>
                         THEN S_jira ELSE Val(datasource)))
    IN  IF d = S_people THEN "people" ELSE IF d = S_signins THEN "signins" ELSE "jira"

\* the default temperature, 0.5
DefaultTemperature == 50

\* the persona ceiling, 0.35
PersonaTemperature == 35

\* the default max_tokens
DefaultMaxTokens == 4096

\* the fallback call's max_tokens ceiling
FallbackMaxTokens == 2048

\* a temperature that is set to the persona value whenever a persona is active
TemperaturePinned(temperature, character) ==
    IF ~IsNone(character) THEN PersonaTemperature
    ELSE IF IsNone(temperature) THEN DefaultTemperature ELSE Val(temperature)

\* answer(): the temperature sent
Temperature(temperature, character) ==
    LET base_temp == IF IsNone(temperature) THEN DefaultTemperature ELSE Val(temperature)
    IN  IF ~IsNone(character) THEN Min(base_temp, PersonaTemperature) ELSE base_temp

\* answer(): the max_tokens of the first call
MaxTokens(max_tokens) == IF IsNone(max_tokens) THEN DefaultMaxTokens ELSE Val(max_tokens)

\* the arguments of the first chat.completions.create call
FirstCall(kn, character, msgs) ==
    [model       |-> "self.model",
     messages    |-> msgs,
     temperature |-> Temperature(kn.temperature, character),
     max_tokens  |-> MaxTokens(kn.max_tokens)]

\* the arguments of the call made in the PermissionDeniedError handler
FallbackCall(kn, character, msgs) ==
    [model       |-> "gpt-4-turbo",
     messages    |-> msgs,
     temperature |-> Temperature(kn.temperature, character),
     max_tokens  |-> Min(MaxTokens(kn.max_tokens), FallbackMaxTokens)]

\* a handler that answers every PermissionDeniedError with the fallback call
FallsBackOnAnyDenial(e) == e.cls = "PermissionDeniedError"

\* answer() lines 209-210: the exceptions answered with the fallback call
FallsBack(e) == e.cls = "PermissionDeniedError" /\ e.model

\* a call that returned
Returned == [cls |-> "", model |-> FALSE]

\* the log entry of a call: its arguments and what it did
Made(call, outcome) ==
    [model       |-> call.model,
     messages    |-> call.messages,
     temperature |-> call.temperature,
     max_tokens  |-> call.max_tokens,
     outcome     |-> outcome]

\* a post-processing that puts the opener first whatever the answer starts with
PostProcessAlwaysPrepends(content, character, lvl) ==
    LET answer0 == Strip(IF IsNone(content) THEN <<>> ELSE Val(content))
    IN  IF IsNone(character) THEN answer0
        ELSE LET opener  == _persona_opener(Val(character), lvl)
                 answer1 == IF ~IsNone(opener) THEN Val(opener) \o <<" ">> \o answer0
                            ELSE answer0
             IN  <<"(">> \o Strip(Val(character)) \o <<")", " ">> \o answer1

\* answer(): the persona opener and tag put before the stripped content
PostProcess(content, character, lvl) ==
    LET answer0 == Strip(IF IsNone(content) THEN <<>> ELSE Val(content))
    IN  IF IsNone(character) THEN answer0
        ELSE LET opener  == _persona_opener(Val(character), lvl)
                 answer1 == IF ~IsNone(opener) /\ ~StartsWith(answer0, Val(opener))
                            THEN Val(opener) \o <<" ">> \o answer0 ELSE answer0
                 tag     == Strip(Val(character))
             IN  IF tag # <<>> THEN <<"(">> \o tag \o <<")", " ">> \o answer1 ELSE answer1

\* answer(): one entry of `structured`
Structured(h, ds) ==
    IF ds = "people"
    THEN [displayName       |-> Get(h, "displayName"),
          userPrincipalName |-> Or(Get(h, "userPrincipalName"), Get(h, "mail")),
          mail              |-> Get(h, "mail"),
          jobTitle          |-> Get(h, "jobTitle"),
          department        |-> Get(h, "department"),
          accountEnabled    |-> Get(h, "accountEnabled"),
          document          |-> DocText(h)]
    ELSE IF ds = "signins"
    THEN [id                |-> Get(h, "id"),
          createdDateTime   |-> Get(h, "createdDateTime"),
          appDisplayName    |-> Get(h, "appDisplayName"),
          userDisplayName   |-> Get(h, "userDisplayName"),
          userPrincipalName |-> Get(h, "userPrincipalName"),
          ipAddress         |-> Get(h, "ipAddress"),
          clientAppUsed     |-> Get(h, "clientAppUsed"),
          operatingSystem   |-> Get(h, "operatingSystem"),
          browser           |-> Get(h, "browser"),
          city              |-> Get(h, "city"),
          countryOrRegion   |-> Get(h, "countryOrRegion"),
          result            |-> Get(h, "result"),
          document          |-> DocText(h)]
    ELSE [key          |-> Get(h, "key"),
          issue_type   |-> Get(h, "issue_type"),
          project      |-> Get(h, "project_key"),
          parent       |-> Get(h, "parent_key"),
          assignee     |-> Or(Get(h, "live_assignee"), Get(h, "assignee")),
          reporter     |-> Get(h, "reporter"),
          priority     |-> Or(Get(h, "live_priority"), Get(h, "priority")),
          resolution   |-> Get(h, "resolution"),
          status       |-> Or(Get(h, "live_status"), Get(h, "status")),
          created      |-> Get(h, "created"),
          updated      |-> Or(Get(h, "live_updated"), Get(h, "updated")),
          labels       |-> GetOr(h, "labels", <<>>),
          components   |-> GetOr(h, "components", <<>>),
          fix_versions |-> GetOr(h, "fix_versions", <<>>),
          summary      |-> Get(h, "summary"),
          description  |-> DocText(h)]

-----------------------------------------------------------------------------
(* ChatService.answer as a process: one action per stretch of code between two
   calls to a collaborator (index, tracker, generation service) *)

ds == Ds(knobs.datasource)

character == EffectiveCharacter(knobs.character, knobs.pirate)

lvl == EffectiveLevel(character, knobs.intensity, knobs.multi_format)

\* what a jira.search call can do: answer, raise (any exception class), or answer
\* with an issue that is not of the expected shape
JiraOutcomes == {"ok", "RequestException", "TypeError", "bad_issue"}

\* what a chat.completions.create call can raise: the class, and whether the
\* message contains "model"
GenErrors ==
    {[cls |-> "PermissionDeniedError", model |-> TRUE],
     [cls |-> "PermissionDeniedError", model |-> FALSE],
     [cls |-> "NotFoundError", model |-> TRUE],
     [cls |-> "RateLimitError", model |-> FALSE]}

\* the message contents the generation service can return
Contents ==
    {NoneOpt,
     Some(<<" ", "o", "k", "\n">>),
     Some(<<"H", "m", "m", ".", " ", "o", "k">>),
     Some(<<"A", "r", "r", "r", "!", " ", "o", "k">>)}

Raise(cls) == pc' = "raised" /\ error' = cls

\* the identity records alone
OnlyPeople == {"people"}

\* answer() line 102: the kinds answered from the index alone
IndexOnlyKinds == {"people", "signins"}

\* _fetch_live_fields line 143, `except Exception` around jira.search: what it catches
SearchHandlerCatches(cls) == TRUE

\* a handler that lets every exception through
CatchesNothing(cls) == FALSE

\* _fetch_live_fields line 160, `except Exception` around the whole body: what it catches
BodyHandlerCatches(cls) == TRUE

\* the exception an issue that is not of the expected shape raises while it is read
\* (lines 148-152: .get on something that is no dict)
BadIssueError == "AttributeError"

\* _fetch_live_fields after one jira.search call: the new live_data, the batches left,
\* and the exception, if any, that leaves the function
AfterSearchCall(outcome, ld, todo, issues) ==
    LET batch   == Head(todo)
        skipped == [live_data |-> ld, batches |-> Tail(todo), raised |-> ""]
        emptied == [live_data |-> <<>>, batches |-> <<>>, raised |-> ""]
    IN  IF outcome = "ok"
        THEN [live_data |-> WithResults(ld, issues, batch), batches |-> Tail(todo), raised |-> ""]
        ELSE IF outcome = "bad_issue"
        THEN (IF BodyHandlerCatches(BadIssueError) THEN emptied
              ELSE [live_data |-> ld, batches |-> <<>>, raised |-> BadIssueError])
        ELSE IF SearchHandlerCatches(outcome) THEN skipped
        ELSE IF BodyHandlerCatches(outcome) THEN emptied
        ELSE [live_data |-> ld, batches |-> <<>>, raised |-> outcome]

\* answer() lines 102-105: people and signins go straight to the index
SearchOnly ==
    /\ pc = "start"
    /\ ds \in IndexOnlyKinds
    /\ IF index.loaded
       THEN /\ hits' = Search(index, knobs.top_k)
            /\ pc' = "dedupe"
            /\ error' = error
       ELSE /\ Raise("RuntimeError")
            /\ hits' = hits
    /\ UNCHANGED <<knobs, jira, index, base_hits, batches, live_data, jira_calls,
                   messages, calls, resp, result>>
    /\ UNCHANGED multiVars
    /\ UNCHANGED storeVars
    /\ UNCHANGED clientVars

\* HybridRetriever.retrieve lines 69-82: search, then either return the hits as they
\* are or collect the keys and start the batched refresh
RetrieveSearch ==
    /\ pc = "start"
    /\ ds \notin IndexOnlyKinds
    /\ IF ~index.loaded
       THEN /\ Raise("RuntimeError")
            /\ UNCHANGED <<hits, base_hits, batches>>
       ELSE LET found == Search(index, knobs.top_k)
            IN  /\ base_hits' = found
                /\ error' = error
                /\ IF _should_enrich_jira(jira)
                   THEN /\ \E b \in KeyBatches(CandidateKeys(knobs.question, found)) :
                               batches' = IF jira.client THEN b ELSE <<>>
                        /\ pc' = "fetch"
                        /\ hits' = hits
                   ELSE /\ hits' = found
                        /\ pc' = "dedupe"
                        /\ batches' = batches
    /\ UNCHANGED <<knobs, jira, index, live_data, jira_calls, messages, calls, resp, result>>
    /\ UNCHANGED multiVars
    /\ UNCHANGED storeVars
    /\ UNCHANGED clientVars

\* _fetch_live_fields lines 129-158: one batch, its jira.search call and the reading
\* of the response; an exception while reading ends the function with {}
FetchBatch ==
    /\ pc = "fetch"
    /\ batches # <<>>
    /\ \E outcome \in JiraOutcomes :
          LET after == AfterSearchCall(outcome, live_data, batches, jira.issues)
          IN  /\ jira_calls' = Append(jira_calls,
                                      [keys    |-> Head(batches),
                                       fields  |-> FRESH_FIELDS,
                                       batch   |-> Cardinality(Head(batches)),
                                       outcome |-> outcome])
              /\ live_data' = after.live_data
              /\ batches' = after.batches
              /\ IF after.raised = "" THEN UNCHANGED <<pc, error>> ELSE Raise(after.raised)
    /\ UNCHANGED <<knobs, jira, index, hits, base_hits, messages, calls, resp, result>>
    /\ UNCHANGED multiVars
    /\ UNCHANGED storeVars
    /\ UNCHANGED clientVars

\* retrieve() lines 85-93: merge the live fields into copies of the hits
MergeLive ==
    /\ pc = "fetch"
    /\ batches = <<>>
    /\ hits' = Enriched(base_hits, live_data)
    /\ pc' = "dedupe"
    /\ UNCHANGED <<knobs, jira, index, base_hits, batches, live_data, jira_calls,
                   messages, calls, resp, result, error>>
    /\ UNCHANGED multiVars
    /\ UNCHANGED storeVars
    /\ UNCHANGED clientVars

\* answer() lines 110-135
DedupeHits ==
    /\ pc = "dedupe"
    /\ hits' = Dedupe(hits, ds)
    /\ pc' = "prompt"
    /\ UNCHANGED <<knobs, jira, index, base_hits, batches, live_data, jira_calls,
                   messages, calls, resp, result, error>>
    /\ UNCHANGED multiVars
    /\ UNCHANGED storeVars
    /\ UNCHANGED clientVars

\* answer() lines 137-193: the system prompt stack and the message list
BuildMessages ==
    /\ pc = "prompt"
    /\ messages' =
          _build_prompt(
              SystemTopLines(ds, character, lvl, knobs.language, knobs.multi_format,
                             knobs.role, knobs.patricize),
              knobs.question.text, hits, knobs.verbose,
              IF knobs.multi_format THEN Some(_format_lock_text(knobs.language, ds)) ELSE NoneOpt,
              ds,
              IF ~IsNone(character) THEN Some(PersonaReminder) ELSE NoneOpt)
    /\ pc' = "call"
    /\ UNCHANGED <<knobs, jira, index, hits, base_hits, batches, live_data, jira_calls,
                   calls, resp, result, error>>
    /\ UNCHANGED multiVars
    /\ UNCHANGED storeVars
    /\ UNCHANGED clientVars

\* answer() lines 196-222: the first call; a PermissionDeniedError naming the model
\* leads to the fallback call, every other exception leaves answer()
CallModel ==
    /\ pc = "call"
    /\ \/ \E c \in Contents :
            /\ calls' = Append(calls, Made(FirstCall(knobs, character, messages), Returned))
            /\ resp' = Some(c)
            /\ pc' = "post"
            /\ error' = error
       \/ \E e \in GenErrors :
            /\ calls' = Append(calls, Made(FirstCall(knobs, character, messages), e))
            /\ resp' = resp
            /\ IF FallsBack(e) THEN pc' = "fallback" /\ error' = error ELSE Raise(e.cls)
    /\ UNCHANGED <<knobs, jira, index, hits, base_hits, batches, live_data, jira_calls,
                   messages, result>>
    /\ UNCHANGED multiVars
    /\ UNCHANGED storeVars
    /\ UNCHANGED clientVars

\* answer() lines 215-220: the call against gpt-4-turbo; whatever it raises leaves
\* answer()
CallFallback ==
    /\ pc = "fallback"
    /\ \/ \E c \in Contents :
            /\ calls' = Append(calls, Made(FallbackCall(knobs, character, messages), Returned))
            /\ resp' = Some(c)
            /\ pc' = "post"
            /\ error' = error
       \/ \E e \in GenErrors :
            /\ calls' = Append(calls, Made(FallbackCall(knobs, character, messages), e))
            /\ resp' = resp
            /\ Raise(e.cls)
    /\ UNCHANGED <<knobs, jira, index, hits, base_hits, batches, live_data, jira_calls,
                   messages, result>>
    /\ UNCHANGED multiVars
    /\ UNCHANGED storeVars
    /\ UNCHANGED clientVars

\* answer() lines 224-291: opener, tag, structured sources, the returned dict
Finish ==
    /\ pc = "post"
    /\ result' = Some([answer     |-> PostProcess(Val(resp), character, lvl),
                       sources    |-> hits,
                       structured |-> [i \in 1..Len(hits) |-> Structured(hits[i], ds)]])
    /\ pc' = "done"
    /\ UNCHANGED <<knobs, jira, index, hits, base_hits, batches, live_data, jira_calls,
                   messages, calls, resp, error>>
    /\ UNCHANGED multiVars
    /\ UNCHANGED storeVars
    /\ UNCHANGED clientVars

AnswerNext ==
    \/ SearchOnly
    \/ RetrieveSearch
    \/ FetchBatch
    \/ MergeLive
    \/ DedupeHits
    \/ BuildMessages
    \/ CallModel
    \/ CallFallback
    \/ Finish

-----------------------------------------------------------------------------
(* Inputs *)

\* the longest metadata list of the index, and the largest top_k
MaxHits == 3

SeqsUpTo(S, n) == UNION {[1..m -> S] : m \in 0..n}

KeyName(prefix, i) == prefix \o "-" \o ToString(i)

\* index metadata of Jira issues (IssueNode.to_metadata), some with the same key
JiraMetas ==
    {[key |-> "PRJ-1", status |-> "Open", assignee |-> "ann", priority |-> "High",
      updated |-> "2024-01-01", summary |-> "login fails", labels |-> <<"auth", "bug">>],
     [key |-> "PRJ-1", status |-> "Closed", assignee |-> PyNone, summary |-> "login fails (copy)",
      document |-> "  notes  "],
     [key |-> "OTH-7", status |-> "Open", summary |-> "slow export", updated |-> "2024-02-02"],
     [issue_key |-> "PRJ-1", summary |-> "legacy record"],
     [key |-> PyNone, summary |-> "no key"]}

\* index metadata of Microsoft Graph users
PeopleMetas ==
    {[userPrincipalName |-> "ann@x.org", mail |-> "ann@x.org", displayName |-> "Ann",
      accountEnabled |-> "True"],
     [userPrincipalName |-> "ann@x.org", displayName |-> "Ann B.", jobTitle |-> "Lead"],
     [userPrincipalName |-> PyNone, mail |-> "ann@x.org", displayName |-> "A. via mail"],
     [displayName |-> "Bob", id |-> "42", accountEnabled |-> "False"],
     [jobTitle |-> "unknown", document |-> ""]}

\* index metadata of sign-in events
SigninMetas ==
    {[id |-> "e1", userPrincipalName |-> "ann@x.org", createdDateTime |-> "t1",
      appDisplayName |-> "Teams", result |-> "Success"],
     [id |-> "e1", userPrincipalName |-> "bob@x.org", createdDateTime |-> "t2",
      appDisplayName |-> "Teams", result |-> "Failure"],
     [userPrincipalName |-> "ann@x.org", createdDateTime |-> "t1", appDisplayName |-> "Teams",
      ipAddress |-> "10.0.0.1"],
     [userPrincipalName |-> "ann@x.org", createdDateTime |-> "t1", appDisplayName |-> "Teams",
      ipAddress |-> "10.0.0.2"],
     [city |-> "Oslo"]}

MetasOf(d) == IF d = "people" THEN PeopleMetas ELSE IF d = "signins" THEN SigninMetas ELSE JiraMetas

\* a loaded index whose metadata, nearest first, is `meta` (IndexFlatIP: the inner
\* product falls with the rank)
IndexOf(meta) ==
    [loaded |-> TRUE, meta |-> meta, dists |-> [i \in 1..Len(meta) |-> 100 - i]]

\* an indexer built over a missing file: nothing loaded
EmptyIndex == [loaded |-> FALSE, meta |-> <<>>, dists |-> <<>>]

\* the tracker's issues, by key, as the search API would report them
TrackerIssues ==
    [k \in {"PRJ-1", "OTH-7"} |->
        IF k = "PRJ-1"
        THEN [status |-> "Done", assignee |-> "zoe", priority |-> "Low", updated |-> "2024-06-01"]
        ELSE [status |-> "Blocked", assignee |-> PyNone, priority |-> "High",
              updated |-> "2024-06-02"]]

Tracker(client) == [client |-> client, issues |-> TrackerIssues]

\* a question whose text cites the keys PRJ-1 .. PRJ-n
Question(n) ==
    [text |-> <<"Which issues are blocked?", ToString(n)>>,
     keys |-> {KeyName("PRJ", i) : i \in 1..n}]

DefaultKnobs ==
    [question     |-> Question(0),
     top_k        |-> MaxHits,
     verbose      |-> FALSE,
     multi_format |-> FALSE,
     role         |-> NoneOpt,
     character    |-> NoneOpt,
     intensity    |-> NoneOpt,
     temperature  |-> NoneOpt,
     max_tokens   |-> NoneOpt,
     language     |-> NoneOpt,
     pirate       |-> NoneOpt,
     patricize    |-> FALSE,
     datasource   |-> Some(S_jira)]

\* no index file written yet
NoFile == [exists |-> FALSE, vectors |-> <<>>, metas |-> <<>>]

\* the files as save() writes them for an indexer in state ix
FileOf(ix) == [exists |-> TRUE, vectors |-> ix.dists, metas |-> ix.meta]

StoreIdle ==
    /\ disk = NoFile
    /\ ixerr = ""

\* _flex_search before its loop
FlexStart == [i |-> 0, log |-> <<>>, ends |-> <<>>, slept |-> <<>>, state |-> "trying"]

\* JiraClient.search not called
PagerIdle ==
    [state |-> "idle", args |-> [jql |-> <<>>, fields |-> <<>>, batch |-> 0, expand |-> <<>>],
     effective_jql |-> <<>>, start_at |-> 0, total |-> 0,
     requests |-> <<>>, pages |-> <<>>, yielded |-> <<>>, error |-> ""]

\* MSGraphClient.query_msgraph not called
GraphIdle ==
    [state |-> "idle", max_retries |-> 0, retries |-> 0, next_link |-> PyNone,
     old_link |-> PyNone, results |-> <<>>, failed |-> 0, error |-> ""]

\* no client call in flight
ClientIdle ==
    /\ http = [state |-> "idle", seen |-> <<>>]
    /\ crawl = [FlexStart EXCEPT !.state = "idle"]
    /\ pager = PagerIdle
    /\ graph = GraphIdle

MultiIdle ==
    /\ indexers = <<>>
    /\ mq = [k |-> 0, i |-> 0]
    /\ merged = <<>>
    /\ mret = [state |-> "idle", value |-> <<>>, error |-> ""]

\* answer() is called with knobs kn on a service built over tracker jr and index ix
Start(kn, jr, ix) ==
    /\ knobs = kn
    /\ jira = jr
    /\ index = ix
    /\ pc = "start"
    /\ hits = <<>>
    /\ base_hits = <<>>
    /\ batches = <<>>
    /\ live_data = <<>>
    /\ jira_calls = <<>>
    /\ messages = <<>>
    /\ calls = <<>>
    /\ resp = NoneOpt
    /\ result = NoneOpt
    /\ error = ""
    /\ MultiIdle
    /\ StoreIdle
    /\ ClientIdle

DsInputs == {Some(S_jira), Some(S_people), Some(S_signins)}

\* every hit list over every kind of record, with and without a tracker client
InitDedup ==
    \E d \in DsInputs, client \in BOOLEAN :
        \E meta \in SeqsUpTo(MetasOf(Ds(d)), MaxHits) :
            Start([DefaultKnobs EXCEPT !.datasource = d, !.question = Question(1)],
                  Tracker(client), IndexOf(meta))

SpecDedup == InitDedup /\ [][AnswerNext]_vars

-----------------------------------------------------------------------------
(* MultiSourceRetriever.retrieve *)

\* list.sort(key=score): a stable insertion of one (score, meta) pair
RECURSIVE InsertByScore(_, _)
InsertByScore(sorted, t) ==
    IF sorted = <<>> THEN <<t>>
    ELSE IF sorted[Len(sorted)][1] <= t[1] THEN Append(sorted, t)
    ELSE Append(InsertByScore(SubSeq(sorted, 1, Len(sorted) - 1), t), sorted[Len(sorted)])

RECURSIVE SortByScore(_)
SortByScore(ts) ==
    IF ts = <<>> THEN <<>>
    ELSE InsertByScore(SortByScore(SubSeq(ts, 1, Len(ts) - 1)), ts[Len(ts)])

\* retrieve() lines 35-36: sort by distance, keep the first k, drop the distances
MergedTopK(ts, k) ==
    LET sorted == SortByScore(ts)
    IN  [i \in 1..Min(k, Len(sorted)) |-> sorted[i][2]]

\* retrieve() line 24, `D, I = idx.search(q, k)`, against FaissIndexer.search, which
\* returns a list of dicts: the exception the statement (or line 25's D.tolist())
\* ends with
UnpackError(found) == IF Len(found) # 2 THEN "ValueError" ELSE "AttributeError"

\* retrieve() lines 23-32, one turn of the loop over the indexers
MultiSearch ==
    /\ mret.state = "running"
    /\ mq.i <= Len(indexers)
    /\ LET idx == indexers[mq.i]
       IN  mret' = [mret EXCEPT !.state = "raised",
                                !.error = IF ~idx.loaded THEN "RuntimeError"
                                          ELSE UnpackError(Search(idx, mq.k))]
    /\ UNCHANGED <<indexers, mq, merged>>
    /\ UNCHANGED answerVars
    /\ UNCHANGED storeVars
    /\ UNCHANGED clientVars

\* retrieve() lines 35-36, after the loop
MultiReturn ==
    /\ mret.state = "running"
    /\ mq.i > Len(indexers)
    /\ mret' = [mret EXCEPT !.state = "returned", !.value = MergedTopK(merged, mq.k)]
    /\ UNCHANGED <<indexers, mq, merged>>
    /\ UNCHANGED answerVars
    /\ UNCHANGED storeVars
    /\ UNCHANGED clientVars

MultiNext == MultiSearch \/ MultiReturn

-----------------------------------------------------------------------------
(* Dedup (answer() lines 110-135) *)

\* the positions of hs whose hit has no identity key, or is the first to carry its key
FirstOccurrences(hs, d) ==
    {i \in 1..Len(hs) :
        IsNone(Kstr(hs[i], d)) \/ \A j \in 1..(i - 1) : Kstr(hs[j], d) # Kstr(hs[i], d)}

\* the n-th smallest member of a set of positions
NthOf(K, n) == CHOOSE i \in K : Cardinality({j \in K : j <= i}) = n

\* out lists exactly the hits of inp at the positions K, in their order in inp
IsSelection(out, inp, K) ==
    /\ Len(out) = Cardinality(K)
    /\ \A n \in 1..Len(out) : out[n] = inp[NthOf(K, n)]

NoDuplicateKeys(hs, d) ==
    \A i, j \in 1..Len(hs) :
        (i < j /\ ~IsNone(Kstr(hs[i], d))) => Kstr(hs[i], d) # Kstr(hs[j], d)

\* C1: whenever answer() dedups its hit list, for every kind of record, the new list
\* holds no two hits with the same identity key, it is the old list restricted to
\* the first hit of each identity key (order kept; a hit with no key at all is
\* kept), and the step ends normally, on the way to the prompt, with no error.
C1_DedupFirstSeen ==
    [][DedupeHits =>
          /\ NoDuplicateKeys(hits', ds)
          /\ IsSelection(hits', hits, FirstOccurrences(hits, ds))
          /\ pc' = "prompt"
          /\ error' = ""]_vars

\* C1 witness: three identity hits came from the index, two with the same principal
\* name, and dedup has left two of them
C1_Witness ==
    /\ pc = "prompt"
    /\ ds = "people"
    /\ Len(index.meta) = 3
    /\ Len(hits) = 2
    /\ Get(index.meta[1], "userPrincipalName") = Get(index.meta[3], "userPrincipalName")
    /\ Get(index.meta[1], "displayName") # Get(index.meta[3], "displayName")
    /\ Get(hits[1], "displayName") = Get(index.meta[1], "displayName")

-----------------------------------------------------------------------------
(* Multi-index retrieval *)

\* the most indexers a MultiSourceRetriever is built over
MaxIndexers == 2

\* the longest metadata list of one of its indexers
MaxIndexLen == 2

AnswerIdle ==
    /\ knobs = DefaultKnobs
    /\ jira = Tracker(FALSE)
    /\ index = EmptyIndex
    /\ pc = "idle"
    /\ hits = <<>>
    /\ base_hits = <<>>
    /\ batches = <<>>
    /\ live_data = <<>>
    /\ jira_calls = <<>>
    /\ messages = <<>>
    /\ calls = <<>>
    /\ resp = NoneOpt
    /\ result = NoneOpt
    /\ error = ""

\* the records the indexers of a MultiSourceRetriever hold
MergeMetas == {m \in JiraMetas : "updated" \in DOMAIN m}

MultiIndexes == {EmptyIndex} \cup {IndexOf(meta) : meta \in SeqsUpTo(MergeMetas, MaxIndexLen)}

\* retrieve(query, k) is called on a retriever built over 0..MaxIndexers FaissIndexers
InitMerge ==
    /\ AnswerIdle
    /\ StoreIdle
    /\ ClientIdle
    /\ indexers \in SeqsUpTo(MultiIndexes, MaxIndexers)
    /\ mq \in [k : 1..MaxHits, i : {1}]
    /\ merged = <<>>
    /\ mret = [state |-> "running", value |-> <<>>, error |-> ""]

SpecMerge == InitMerge /\ [][MultiNext]_vars

IsSortedByScore(hs) ==
    \A i, j \in 1..Len(hs) : i < j => hs[i]["_score"] <= hs[j]["_score"]

\* C2: when retrieve(query, k) has ended, over any number of indexers that all have
\* their index loaded, it has returned a list that is sorted by score ascending and
\* has at most k entries.
C2_MergedSortedTopK ==
    (/\ mret.state \in {"returned", "raised"}
     /\ \A n \in 1..Len(indexers) : indexers[n].loaded)
        => /\ mret.state = "returned"
           /\ IsSortedByScore(mret.value)
           /\ Len(mret.value) <= mq.k

-----------------------------------------------------------------------------
(* Live enrichment (HybridRetriever.retrieve, _fetch_live_fields) *)

\* the longest hit list of an enriched answer
MaxEnrichHits == 2

\* how many issue keys the question cites: none, one, a full batch
QuestionKeyCounts == {0, 1, BatchSize}

\* the index records of the enriched answers, per kind
EnrichMetas(d) ==
    IF d = "people" THEN {m \in PeopleMetas : "accountEnabled" \in DOMAIN m}
    ELSE IF d = "signins" THEN {m \in SigninMetas : "id" \in DOMAIN m}
    ELSE {m \in JiraMetas : "updated" \in DOMAIN m \/ "issue_key" \in DOMAIN m}

\* every kind of record, with and without a tracker client, over questions citing
\* 0, 1 or 50 keys: up to 51 keys go to the tracker, in one or two batches
InitEnrich ==
    \E d \in DsInputs, client \in BOOLEAN, n \in QuestionKeyCounts :
        \E meta \in SeqsUpTo(EnrichMetas(Ds(d)), MaxEnrichHits) :
            Start([DefaultKnobs EXCEPT !.datasource = d, !.question = Question(n)],
                  Tracker(client), IndexOf(meta))

SpecEnrich == InitEnrich /\ [][AnswerNext]_vars

LiveFields == {"live_status", "live_assignee", "live_priority", "live_updated"}

HasLiveField(h) == DOMAIN h \cap LiveFields # {}

AllCallsFailed == \A i \in 1..Len(jira_calls) : jira_calls[i].outcome # "ok"

\* C3: a tracker call that fails (network error, any other exception, a response that
\* cannot be read) never makes the answer raise: as long as no model call has been
\* made, an answer that called the tracker has not raised, and the refresh itself
\* carries no error. Retrieval returns as many hits as the index gave, each with its
\* index fields; when every tracker call failed, the returned hits are the index
\* hits unchanged, with no live field.
C3_EnrichmentNeverRaises ==
    /\ (jira_calls # <<>> /\ calls = <<>>) => pc # "raised"
    /\ pc = "fetch" => error = ""
    /\ (pc = "dedupe" /\ jira_calls # <<>>) =>
          /\ Len(hits) = Len(base_hits)
          /\ base_hits = Search(index, knobs.top_k)
          /\ \A i \in 1..Len(hits) :
                \A f \in DOMAIN base_hits[i] \ LiveFields : hits[i][f] = base_hits[i][f]
          /\ AllCallsFailed =>
                /\ hits = base_hits
                /\ \A i \in 1..Len(hits) : ~HasLiveField(hits[i])

\* C3 witness: two batches went to the tracker, the first call raised, the second
\* response could not be read, and retrieval has returned the two index hits
C3_Witness ==
    /\ pc = "dedupe"
    /\ Len(jira_calls) = 2
    /\ jira_calls[1].outcome = "RequestException"
    /\ jira_calls[2].outcome = "bad_issue"
    /\ Len(hits) = 2
    /\ hits = base_hits

\* the hits as the index search gave them
IndexHits == Search(index, knobs.top_k)

\* C9: live enrichment happens only when a tracker client is configured and the
\* records are jira issues. A tracker call has been made, or a hit or a returned
\* source carries a live field, only in that case; in every other case (no client,
\* or people or signins records even with a client) the hits that leave retrieval
\* are the index hits as they are.
C9_EnrichOnlyJiraWithTracker ==
    /\ (\/ jira_calls # <<>>
        \/ \E i \in 1..Len(hits) : HasLiveField(hits[i])
        \/ (~IsNone(result) /\ \E i \in 1..Len(Val(result).sources) :
                                  HasLiveField(Val(result).sources[i])))
          => (jira.client /\ ds = "jira")
    /\ (pc = "dedupe" /\ ~(jira.client /\ ds = "jira")) => hits = IndexHits

\* C9 witness: sign-in records, a tracker client configured, a question that cites an
\* issue key, and retrieval has returned two hits
C9_Witness ==
    /\ pc = "dedupe"
    /\ ds = "signins"
    /\ jira.client
    /\ knobs.question.keys # {}
    /\ Len(hits) = 2
    /\ jira_calls = <<>>

-----------------------------------------------------------------------------
(* The instruction sequence (answer() lines 137-193, _build_prompt) *)

\* one index record per kind
SampleMeta(d) ==
    IF d = "people" THEN CHOOSE m \in PeopleMetas : Get(m, "displayName") = "Bob"
    ELSE IF d = "signins" THEN CHOOSE m \in SigninMetas : Get(m, "result") = "Failure"
    ELSE CHOOSE m \in JiraMetas : Get(m, "key") = "OTH-7"

SampleIndex(datasource) == IndexOf(<<SampleMeta(Ds(datasource))>>)

\* the persona arguments of the policy runs: none, a word that means none, a named
\* persona, a persona the code has no text for
PolicyCharacters == {NoneOpt, Some(S_off), Some(S_yoda), Some(S_bard)}

PolicyLanguages == {NoneOpt, Some(<<>>), Some(S_fr_CA)}

PolicyRoles == {NoneOpt, Some("developer")}

\* every combination of the knobs that decide which blocks the prompt holds
InitPolicy ==
    \E d \in DsInputs, c \in PolicyCharacters, p \in {NoneOpt, Some(TRUE)},
       mf \in BOOLEAN, lang \in PolicyLanguages, r \in PolicyRoles,
       joke \in BOOLEAN, vb \in BOOLEAN :
        Start([DefaultKnobs EXCEPT !.datasource = d, !.character = c, !.pirate = p,
                                   !.multi_format = mf, !.language = lang, !.role = r,
                                   !.patricize = joke, !.verbose = vb],
              Tracker(TRUE), SampleIndex(d))

SpecPolicy == InitPolicy /\ [][AnswerNext]_vars

\* the blocks of a message list, in the order the model reads them
RECURSIVE AllBlocks(_)
AllBlocks(msgs) == IF msgs = <<>> THEN <<>> ELSE msgs[1].content \o AllBlocks(Tail(msgs))

Tags(msgs) == [i \in 1..Len(AllBlocks(msgs)) |-> AllBlocks(msgs)[i].tag]

Count(msgs, tag) == Cardinality({i \in 1..Len(Tags(msgs)) : Tags(msgs)[i] = tag})

\* a can be read off b from left to right
RECURSIVE IsSubsequence(_, _)
IsSubsequence(a, b) ==
    IF a = <<>> THEN TRUE
    ELSE IF b = <<>> THEN FALSE
    ELSE IF a[1] = b[1] THEN IsSubsequence(Tail(a), Tail(b))
    ELSE IsSubsequence(a, Tail(b))

\* C4: for every knob set with no persona after normalisation and no multi-section
\* format, whatever the language, role, verbose flag, joke flag and kind of record,
\* the compiled instruction sequence holds exactly one base block, no persona block
\* (voice rules, reinforcement, reminder) and no format-lock block; it holds the
\* humor block exactly when the joke flag is set.
C4_PlainPromptBlocks ==
    (messages # <<>> /\ IsNone(character) /\ ~knobs.multi_format) =>
        /\ Count(messages, "base") = 1
        /\ Count(messages, "persona") = 0
        /\ Count(messages, "persona_reinforcement") = 0
        /\ Count(messages, "persona_reminder") = 0
        /\ Count(messages, "format_lock") = 0
        /\ Count(messages, "humor") = (IF knobs.patricize THEN 1 ELSE 0)

\* C4 witness: no persona (the word "off"), no multi-section format, the joke flag
\* set, a language set, and the messages are built
C4_Witness ==
    /\ pc = "call"
    /\ knobs.character = Some(S_off)
    /\ ~knobs.multi_format
    /\ knobs.patricize
    /\ knobs.language = Some(S_fr_CA)
    /\ Count(messages, "base") = 1
    /\ Count(messages, "humor") = 1

\* C4 as stated: with no persona and no multi-section format the sequence holds
\* exactly one base block and no persona, format-lock or humor block, joke flag or not.
C4_AsStated ==
    (messages # <<>> /\ IsNone(character) /\ ~knobs.multi_format) =>
        /\ Count(messages, "base") = 1
        /\ Count(messages, "persona") = 0
        /\ Count(messages, "format_lock") = 0
        /\ Count(messages, "humor") = 0

\* the fixed order of the blocks; the note that puts the joke under the language
\* requirement belongs to the humor rule
BlockOrder ==
    <<"language", "persona", "persona_reinforcement", "format_lock", "humor", "humor_language",
      "base", "context", "format_lock", "persona_reminder", "question">>

\* C5: for every knob set, the blocks present in the final instruction sequence stand
\* in the fixed order language directive, persona voice rules, persona reinforcement,
\* format lock, humor rule, base instructions, context, format-lock restatement,
\* persona reminder, user question: the sequence can be read off that list from left
\* to right, whatever blocks the knobs leave out. Base, context and question are
\* always there, and only the question is a user message.
C5_BlockOrderFixed ==
    messages # <<>> =>
        /\ IsSubsequence(Tags(messages), BlockOrder)
        /\ Count(messages, "base") = 1
        /\ Count(messages, "context") = 1
        /\ Count(messages, "question") = 1
        /\ \A i \in 1..Len(messages) :
              messages[i].role = (IF i = Len(messages) THEN "user" ELSE "system")

\* C5 witness: every knob is set and all the blocks are present
C5_Witness ==
    /\ pc = "call"
    /\ Tags(messages) = BlockOrder

-----------------------------------------------------------------------------
(* Generation calls (answer() lines 195-222) *)

\* requested temperatures, in hundredths; none requested is NoneOpt
RequestedTemperatures == {NoneOpt, Some(10), Some(20), Some(35), Some(50), Some(90)}

\* requested max_tokens
RequestedMaxTokens == {NoneOpt, Some(1000), Some(2048), Some(3000)}

GenCharacters == {NoneOpt, Some(S_yoda)}

\* every requested temperature and token ceiling, with and without a persona
InitGen ==
    \E d \in DsInputs, c \in GenCharacters, t \in RequestedTemperatures,
       mt \in RequestedMaxTokens :
        Start([DefaultKnobs EXCEPT !.datasource = d, !.character = c, !.temperature = t,
                                   !.max_tokens = mt],
              Tracker(TRUE), SampleIndex(d))

SpecGen == InitGen /\ [][AnswerNext]_vars

\* the first call was rejected with a permission error that names the model
ModelDenied(call) == call.outcome.cls = "PermissionDeniedError" /\ call.outcome.model

Failed(call) == call.outcome.cls # ""

Ended == pc \in {"post", "done", "raised"}

\* the token ceiling asked for
RequestedCeiling == IF IsNone(knobs.max_tokens) THEN 4096 ELSE Val(knobs.max_tokens)

\* C6: at most two generation calls are made per question. A second call is made
\* exactly when the first was rejected with a permission error naming the model: it
\* goes to the fallback model, with the same messages and a token ceiling that is the
\* smaller of the requested one and 2048. When the first call fails in any other way
\* no second call is made and answer() raises that error; when the fallback call
\* fails answer() raises its error.
C6_ModelFallback ==
    /\ Len(calls) <= 2
    /\ (Len(calls) >= 1 /\ ModelDenied(calls[1])) => (pc = "fallback" \/ Len(calls) = 2)
    /\ (Len(calls) >= 1 /\ Failed(calls[1]) /\ ~ModelDenied(calls[1])) =>
          /\ Len(calls) = 1
          /\ pc = "raised"
          /\ error = calls[1].outcome.cls
    /\ Len(calls) = 2 =>
          /\ ModelDenied(calls[1])
          /\ calls[1].model = "self.model"
          /\ calls[1].max_tokens = RequestedCeiling
          /\ calls[2].model = "gpt-4-turbo"
          /\ calls[2].messages = calls[1].messages
          /\ calls[2].max_tokens <= RequestedCeiling
          /\ calls[2].max_tokens <= 2048
          /\ calls[2].max_tokens \in {RequestedCeiling, 2048}
          /\ Failed(calls[2]) => (pc = "raised" /\ error = calls[2].outcome.cls)
          /\ ~Failed(calls[2]) => pc \in {"post", "done"}
    /\ (Ended /\ pc # "raised") => ~Failed(calls[Len(calls)])

\* C6 witness: 3000 tokens were requested, the first call was denied for the model,
\* and the fallback call, with 2048 tokens, has returned
C6_Witness ==
    /\ pc = "post"
    /\ knobs.max_tokens = Some(3000)
    /\ Len(calls) = 2
    /\ ModelDenied(calls[1])
    /\ calls[2].model = "gpt-4-turbo"
    /\ calls[2].max_tokens = 2048

PersonaActive ==
    IF IsNone(knobs.character) THEN knobs.pirate = Some(TRUE)
    ELSE Lower(Strip(Val(knobs.character))) \notin {<<>>, S_none, S_default, S_off, S_no}

\* the requested temperature, 0.5 when none is requested
RequestedTemperature == IF IsNone(knobs.temperature) THEN 50 ELSE Val(knobs.temperature)

PersonaFloor == 20

\* C8: when a persona is active the temperature sent to the generation service is at
\* most the requested one and never below 0.2, for every requested temperature.
C8_TemperatureFloor ==
    PersonaActive =>
        \A i \in 1..Len(calls) :
            /\ calls[i].temperature <= RequestedTemperature
            /\ calls[i].temperature >= PersonaFloor

-----------------------------------------------------------------------------
(* Persona normalisation (_normalize_persona, answer() lines 85-92) *)

\* the words that mean no persona
NoPersonaWords == {<<>>, S_none, S_default, S_off, S_no}

\* the persona names of the runs: a named persona and one the code has no text for
PersonaWords == {S_yoda, S_bard}

\* a word as a caller may type it: as it is, in capitals, in capitals inside white space
Spelled(w) == {w, Upper(w), <<" ">> \o Upper(w) \o <<"\t", "\n">>}

PersonaInputs ==
    {NoneOpt} \cup {Some(x) : x \in UNION {Spelled(w) : w \in NoPersonaWords \cup PersonaWords}}

PirateInputs == {NoneOpt, Some(TRUE), Some(FALSE)}

\* every spelling of the persona argument, with the legacy pirate flag unset, true
\* and false, with and without a requested temperature above the persona ceiling
InitPersona ==
    \E d \in DsInputs, c \in PersonaInputs, p \in PirateInputs,
       t \in {NoneOpt, Some(90)}, mf \in BOOLEAN :
        Start([DefaultKnobs EXCEPT !.datasource = d, !.character = c, !.pirate = p,
                                   !.temperature = t, !.multi_format = mf],
              Tracker(TRUE), SampleIndex(d))

SpecPersona == InitPersona /\ [][AnswerNext]_vars

PersonaTags == {"persona", "persona_reinforcement", "persona_reminder"}

\* what "no persona for the whole call" means: no persona block and no reminder in
\* the messages, the requested temperature on every call, and an answer that is the
\* stripped content, with no opener and no tag before it
NoPersonaEffects ==
    /\ \A i \in 1..Len(Tags(messages)) : Tags(messages)[i] \notin PersonaTags
    /\ \A i \in 1..Len(calls) : calls[i].temperature = RequestedTemperature
    /\ pc = "done" =>
          Val(result).answer = Strip(IF IsNone(Val(resp)) THEN <<>> ELSE Val(Val(resp)))

\* the persona blocks and the tag carry the name w
PersonaEffects(w) ==
    /\ messages # <<>> =>
          /\ Count(messages, "persona") = 1
          /\ Count(messages, "persona_reminder") = 1
          /\ \A i \in 1..Len(AllBlocks(messages)) :
                AllBlocks(messages)[i].tag = "persona" =>
                    AllBlocks(messages)[i].args[1] \in {w, <<"generic">> \o w}
    /\ \A i \in 1..Len(calls) : calls[i].temperature <= 35
    /\ pc = "done" => StartsWith(Val(result).answer, <<"(">> \o w \o <<")", " ">>)

\* the persona argument is one of the spellings of w
SpelledAs(w) == ~IsNone(knobs.character) /\ Val(knobs.character) \in Spelled(w)

\* C10: the persona name is lower-cased and stripped: however a persona name is
\* spelled, the persona blocks and the tag carry its lower-case, stripped form. Every
\* spelling of "", "none", "default", "off" and "no" yields no persona for the whole
\* call (no persona block, no reminder, no temperature clamp, no opener, no tag), and
\* so does a missing persona unless the legacy pirate flag is set to true.
C10_PersonaNormalized ==
    /\ \A w \in NoPersonaWords : SpelledAs(w) => NoPersonaEffects
    /\ (IsNone(knobs.character) /\ knobs.pirate # Some(TRUE)) => NoPersonaEffects
    /\ \A w \in PersonaWords : SpelledAs(w) => PersonaEffects(w)

\* C10 witness: the persona was given as " OFF" inside white space, 0.9 was requested,
\* and the answer is returned, with 0.9 on the call and no persona block
C10_Witness ==
    /\ pc = "done"
    /\ knobs.character = Some(<<" ", "O", "F", "F", "\t", "\n">>)
    /\ knobs.pirate = Some(TRUE)
    /\ knobs.temperature = Some(90)
    /\ calls[1].temperature = 90
    /\ Count(messages, "persona") = 0

\* C10 as stated: every spelling of "", "none", "default", "off" and "no", and a
\* missing persona, yields no persona for the whole call.
C10_AsStated ==
    /\ \A w \in NoPersonaWords : SpelledAs(w) => NoPersonaEffects
    /\ IsNone(knobs.character) => NoPersonaEffects
    /\ \A w \in PersonaWords : SpelledAs(w) => PersonaEffects(w)

-----------------------------------------------------------------------------
(* The returned dict (answer() lines 235-291) *)

\* every top_k from 1 to MaxHits over index lists of up to MaxHits records, so that
\* the index holds more records than are asked for in some runs
InitShape ==
    \E d \in DsInputs, k \in 1..MaxHits :
        \E meta \in SeqsUpTo(EnrichMetas(Ds(d)), MaxHits) :
            Start([DefaultKnobs EXCEPT !.datasource = d, !.top_k = k], Tracker(TRUE),
                  IndexOf(meta))

SpecShape == InitShape /\ [][AnswerNext]_vars

\* the first top_k records of the index, as its metadata holds them
TopRecords == SubSeq(index.meta, 1, IF knobs.top_k < Len(index.meta) THEN knobs.top_k
                                    ELSE Len(index.meta))

\* the positions of the top records that are the first to carry their identity key
KeptPositions == FirstOccurrences(TopRecords, ds)

\* the fields of the projection, per kind
ProjectionFields ==
    IF ds = "people"
    THEN {"displayName", "userPrincipalName", "mail", "jobTitle", "department",
          "accountEnabled", "document"}
    ELSE IF ds = "signins"
    THEN {"id", "createdDateTime", "appDisplayName", "userDisplayName", "userPrincipalName",
          "ipAddress", "clientAppUsed", "operatingSystem", "browser", "city",
          "countryOrRegion", "result", "document"}
    ELSE {"key", "issue_type", "project", "parent", "assignee", "reporter", "priority",
          "resolution", "status", "created", "updated", "labels", "components",
          "fix_versions", "summary", "description"}

\* the value of field f of hit h, PyNone when the hit has no such field
FieldOf(h, f) == IF f \in DOMAIN h THEN h[f] ELSE PyNone

\* the live value when the hit has a non-empty one, the index value otherwise
LiveOr(h, live, base) ==
    IF FieldOf(h, live) \notin {PyNone, ""} THEN h[live] ELSE FieldOf(h, base)

\* p is the projection of hit h for the kind of record asked for
IsProjection(p, h) ==
    /\ DOMAIN p = ProjectionFields
    /\ ds = "people" =>
          /\ p.displayName = FieldOf(h, "displayName")
          /\ p.mail = FieldOf(h, "mail")
          /\ p.userPrincipalName =
                (IF FieldOf(h, "userPrincipalName") \notin {PyNone, ""}
                 THEN h.userPrincipalName ELSE FieldOf(h, "mail"))
          /\ p.jobTitle = FieldOf(h, "jobTitle")
          /\ p.department = FieldOf(h, "department")
          /\ p.accountEnabled = FieldOf(h, "accountEnabled")
    /\ ds = "signins" =>
          \A f \in ProjectionFields \ {"document"} : p[f] = FieldOf(h, f)
    /\ ds = "jira" =>
          /\ \A f \in {"key", "issue_type", "reporter", "resolution", "created", "summary"} :
                p[f] = FieldOf(h, f)
          /\ p.project = FieldOf(h, "project_key")
          /\ p.parent = FieldOf(h, "parent_key")
          /\ p.status = LiveOr(h, "live_status", "status")
          /\ p.assignee = LiveOr(h, "live_assignee", "assignee")
          /\ p.priority = LiveOr(h, "live_priority", "priority")
          /\ p.updated = LiveOr(h, "live_updated", "updated")
          /\ \A f \in {"labels", "components", "fix_versions"} :
                p[f] = (IF f \in DOMAIN h THEN h[f] ELSE <<>>)

\* C11: in the returned dict, `sources` is the hit list after dedup (for jira issues,
\* after enrichment): it holds, in index order, the first record of each identity key
\* among the first top_k records of the index, each with its index fields and its
\* score, and for a jira issue whose key the tracker answered for, the live fields
\* fetched. `structured` is as long as `sources`, structured[i] is the projection of
\* sources[i] for the kind asked for, and neither list is longer than top_k.
C11_ResultShape ==
    pc = "done" =>
        LET sources    == Val(result).sources
            structured == Val(result).structured
        IN  /\ sources = hits
            /\ Len(sources) <= knobs.top_k
            /\ Len(structured) <= knobs.top_k
            /\ Len(structured) = Len(sources)
            /\ \A i \in 1..Len(sources) : IsProjection(structured[i], sources[i])
            /\ Len(sources) = Cardinality(KeptPositions)
            /\ \A n \in 1..Len(sources) :
                  LET rec == TopRecords[NthOf(KeptPositions, n)]
                      key == IF FieldOf(rec, "key") \notin {PyNone, ""} THEN rec.key
                             ELSE FieldOf(rec, "issue_key")
                  IN  /\ \A f \in DOMAIN rec : sources[n][f] = rec[f]
                      /\ sources[n].score = index.dists[NthOf(KeptPositions, n)]
                      /\ IF ds = "jira" /\ key \in DOMAIN live_data
                         THEN \A f \in LiveFields : sources[n][f] = live_data[key][f]
                         ELSE DOMAIN sources[n] = DOMAIN rec \cup {"score"}

\* C11 witness: the index holds three issues, two were asked for, the tracker answered,
\* and the two returned sources carry a live status that the projection shows
C11_Witness ==
    /\ pc = "done"
    /\ ds = "jira"
    /\ Len(index.meta) = 3
    /\ knobs.top_k = 2
    /\ Len(Val(result).sources) = 2
    /\ Len(Val(result).structured) = 2
    /\ "live_status" \in DOMAIN Val(result).sources[1]
    /\ Val(result).structured[1].status = Val(result).sources[1].live_status
    /\ Val(result).structured[1].status # FieldOf(index.meta[1], "status")

-----------------------------------------------------------------------------
(* Persona post-processing (answer() lines 224-233, _persona_opener) *)

\* no persona, the four named personas, and a persona the code has no opener for
OpenerCharacters ==
    {NoneOpt, Some(S_yoda), Some(S_pirate), Some(S_shakespeare), Some(S_executive_snark),
     Some(S_bard)}

S_HEAVY_padded == <<" ", "H", "E", "A", "V", "Y", " ">>

S_extreme == <<"e", "x", "t", "r", "e", "m", "e">>

\* the intensity arguments: none, light, medium, heavy, heavy in capitals and spaces,
\* unknown
IntensityInputs ==
    {NoneOpt, Some(S_light), Some(S_medium), Some(S_heavy), Some(S_HEAVY_padded),
     Some(S_extreme)}

InitOpener ==
    \E d \in DsInputs, c \in OpenerCharacters, i \in IntensityInputs, mf \in BOOLEAN :
        Start([DefaultKnobs EXCEPT !.datasource = d, !.character = c, !.intensity = i,
                                   !.multi_format = mf],
              Tracker(TRUE), SampleIndex(d))

SpecOpener == InitOpener /\ [][AnswerNext]_vars

\* the intensity in force: the one asked for (medium when none or unknown), raised
\* from medium to heavy for yoda under the multi-section format
IntensityInForce ==
    LET asked == IF knobs.intensity \in {Some(S_heavy), Some(S_HEAVY_padded)} THEN "heavy"
                 ELSE IF knobs.intensity = Some(S_light) THEN "light" ELSE "medium"
    IN  IF knobs.character = Some(S_yoda) /\ knobs.multi_format /\ asked = "medium"
        THEN "heavy" ELSE asked

\* the fixed opener of the persona asked for, <<>> when it has none
FixedOpener ==
    IF knobs.character = Some(S_yoda)
    THEN (IF IntensityInForce = "heavy" THEN <<"H", "r", "r", "r", "m", ".">>
          ELSE <<"H", "m", "m", ".">>)
    ELSE IF knobs.character = Some(S_pirate)
    THEN (IF IntensityInForce = "heavy" THEN <<"A", "r", "r", "r", "!">>
          ELSE <<"A", "r", "r", "r", ".">>)
    ELSE IF knobs.character = Some(S_shakespeare)
    THEN <<"F", "o", "r", "s", "o", "o", "t", "h", ",">>
    ELSE IF knobs.character = Some(S_executive_snark)
    THEN <<"S", "h", "o", "r", "t", " ", "v", "e", "r", "s", "i", "o", "n", ":">>
    ELSE <<>>

\* the generated text, trimmed
GeneratedText == Strip(IF IsNone(Val(resp)) THEN <<>> ELSE Val(Val(resp)))

\* C12: the returned answer. With no persona it is the generated text, trimmed. With a
\* persona it is the tag "(name) " followed by a body: the generated text itself when
\* the persona has no fixed opener or the text already starts with the opener, the
\* opener, a space and the text otherwise. The opener is the one of the intensity in
\* force (for yoda and pirate another one at heavy), and the body never starts with
\* the opener twice.
C12_OpenerAndTag ==
    pc = "done" =>
        LET answer == Val(result).answer
            tag    == <<"(">> \o Val(knobs.character) \o <<")", " ">>
            body   == SubSeq(answer, Len(tag) + 1, Len(answer))
        IN  IF IsNone(knobs.character) THEN answer = GeneratedText
            ELSE /\ StartsWith(answer, tag)
                 /\ StartsWith(body, FixedOpener)
                 /\ IF FixedOpener = <<>> \/ StartsWith(GeneratedText, FixedOpener)
                    THEN body = GeneratedText
                    ELSE body = FixedOpener \o <<" ">> \o GeneratedText
                 /\ FixedOpener # <<>> =>
                       ~StartsWith(body, FixedOpener \o <<" ">> \o FixedOpener)

\* C12 witness: the pirate at heavy intensity, a generated text that already starts
\* with "Arrr!", and the answer returned with the tag and one opener
C12_Witness ==
    /\ pc = "done"
    /\ knobs.character = Some(S_pirate)
    /\ knobs.intensity = Some(S_HEAVY_padded)
    /\ StartsWith(GeneratedText, <<"A", "r", "r", "r", "!">>)
    /\ Val(result).answer = <<"(", "p", "i", "r", "a", "t", "e", ")", " ">> \o GeneratedText

-----------------------------------------------------------------------------
(* FaissIndexer: add, save, load *)

\* the most vectors, and the most metadata records, an indexer is grown to
MaxVectors == 3

\* the most vectors, and the most metadata records, one add() call is given
MaxAdd == 2

\* the record every add() call of these runs carries
StoreMeta == SampleMeta("jira")

\* n vectors, each standing for one row of the array given to add(); the number kept
\* in `dists` is the inner product a later search would report
Rows(n) == [i \in 1..n |-> 0]

\* FaissIndexer.add(vectors, metas): the dimension check, then the vectors go to the
\* index and the records to _meta, whatever their numbers
StoreAdd ==
    /\ pc = "store"
    /\ \E n \in 0..MaxAdd, metas \in SeqsUpTo({StoreMeta}, MaxAdd), dim_ok \in BOOLEAN :
          /\ Len(index.dists) + n <= MaxVectors
          /\ Len(index.meta) + Len(metas) <= MaxVectors
          /\ IF ~dim_ok
             THEN /\ ixerr' = "ValueError"
                  /\ index' = index
             ELSE /\ ixerr' = ""
                  /\ index' = [loaded |-> TRUE,
                               meta   |-> index.meta \o metas,
                               dists  |-> index.dists \o Rows(n)]
    /\ UNCHANGED <<knobs, jira, pc, hits, base_hits, batches, live_data, jira_calls,
                   messages, calls, resp, result, error, disk>>
    /\ UNCHANGED multiVars
    /\ UNCHANGED clientVars

\* FaissIndexer.save
StoreSave ==
    /\ pc = "store"
    /\ IF ~index.loaded
       THEN /\ ixerr' = "RuntimeError"
            /\ disk' = disk
       ELSE /\ ixerr' = ""
            /\ disk' = FileOf(index)
    /\ UNCHANGED answerVars
    /\ UNCHANGED multiVars
    /\ UNCHANGED clientVars

\* what faiss.read_index raises for a file that is not there
MissingFileErrors == {"RuntimeError", "FileNotFoundError"}

\* FaissIndexer.load: read_index, then the metadata lines, then the count check; the
\* two attributes are assigned before the check
StoreLoad ==
    /\ pc = "store"
    /\ IF ~disk.exists
       THEN /\ ixerr' \in MissingFileErrors
            /\ index' = index
       ELSE /\ index' = [loaded |-> TRUE, meta |-> disk.metas, dists |-> disk.vectors]
            /\ ixerr' = IF Len(disk.vectors) # Len(disk.metas) THEN "RuntimeError" ELSE ""
    /\ UNCHANGED <<knobs, jira, pc, hits, base_hits, batches, live_data, jira_calls,
                   messages, calls, resp, result, error, disk>>
    /\ UNCHANGED multiVars
    /\ UNCHANGED clientVars

StoreNext == StoreAdd \/ StoreSave \/ StoreLoad

\* a new FaissIndexer over a stem with no files
InitStore ==
    /\ knobs = DefaultKnobs
    /\ jira = Tracker(FALSE)
    /\ index = EmptyIndex
    /\ pc = "store"
    /\ hits = <<>>
    /\ base_hits = <<>>
    /\ batches = <<>>
    /\ live_data = <<>>
    /\ jira_calls = <<>>
    /\ messages = <<>>
    /\ calls = <<>>
    /\ resp = NoneOpt
    /\ result = NoneOpt
    /\ error = ""
    /\ MultiIdle
    /\ StoreIdle
    /\ ClientIdle

SpecStore == InitStore /\ [][StoreNext]_vars

\* C13: in every state reached through add, save and load, the indexer holds as many
\* metadata records as vectors, in memory and in the files it wrote.
C13_CountsAgree ==
    /\ Len(index.meta) = Len(index.dists)
    /\ Len(disk.metas) = Len(disk.vectors)

-----------------------------------------------------------------------------
(* Failures of answer() *)

\* C14: whenever retrieval or generation fails, the call still returns: the caller is
\* handed a result carrying the error, and no exception leaves answer().
C14_FailureIsReturned == (error # "") => (pc # "raised" /\ ~IsNone(result))

-----------------------------------------------------------------------------
(* The quota of the persona block (_persona_instructions, answer() lines 94-99) *)

\* the intensity asked for: light, medium or heavy, medium when none or unknown
AskedIntensity ==
    IF knobs.intensity \in {Some(S_heavy), Some(S_HEAVY_padded)} THEN "heavy"
    ELSE IF knobs.intensity = Some(S_light) THEN "light" ELSE "medium"

\* the quota of an intensity, as it is printed in the block
QuotaText(level) == IF level = "light" THEN "1" ELSE IF level = "medium" THEN "2" ELSE "3"

\* the quotas printed in the persona blocks of the messages
WrittenQuotas ==
    {AllBlocks(messages)[i].args[2][2] :
        i \in {j \in 1..Len(AllBlocks(messages)) : AllBlocks(messages)[j].tag = "persona"}}

\* C15 (amended): with a persona, named or not, the messages hold one persona block
\* and the quota printed in it is 1, 2 or 3 for the intensity in force light, medium
\* or heavy; the intensity in force is the one asked for, medium when it is missing or
\* unrecognized, except that yoda under the multi-section format is raised from medium
\* to heavy. The quota never decreases from light to medium to heavy.
C15_QuotaByIntensity ==
    (messages # <<>> /\ ~IsNone(knobs.character)) =>
        /\ Count(messages, "persona") = 1
        /\ WrittenQuotas = {QuotaText(IntensityInForce)}
        /\ AskedIntensity = "light" => WrittenQuotas = {"1"}
        /\ AskedIntensity = "heavy" => WrittenQuotas = {"3"}
        /\ AskedIntensity = "medium" => WrittenQuotas \subseteq {"2", "3"}

\* C15 witness: a persona the code has no text for, an intensity it does not know, and
\* the generic persona block written with the quota of medium
C15_Witness ==
    /\ messages # <<>>
    /\ knobs.character = Some(S_bard)
    /\ knobs.intensity = Some(S_extreme)
    /\ WrittenQuotas = {"2"}

\* C15 as stated: the quota printed is the one of the intensity asked for, 2 for
\* medium and for an unrecognized value, for every persona.
C15_AsStated ==
    (messages # <<>> /\ ~IsNone(knobs.character)) =>
        WrittenQuotas = {QuotaText(AskedIntensity)}

-----------------------------------------------------------------------------
(* One service, several questions *)

\* the most generation calls a service has logged when it is asked again
MaxLogged == 2

\* the two settings a service is asked with, each with its own question: the defaults,
\* and yoda in French with the multi-section format and the joke
AgainKnobs(d) ==
    {[DefaultKnobs EXCEPT !.datasource = d],
     [DefaultKnobs EXCEPT !.datasource = d, !.question = Question(1),
                          !.character = Some(S_yoda), !.language = Some(S_fr),
                          !.multi_format = TRUE, !.patricize = TRUE]}

\* answer() is called again on the same ChatService: the retriever, its index and its
\* tracker client stay, every local of answer() starts anew, and the generation
\* service has seen the calls of the earlier questions
AskAgain ==
    /\ pc \in {"done", "raised"}
    /\ Len(calls) < MaxLogged
    /\ knobs' \in AgainKnobs(knobs.datasource)
    /\ pc' = "start"
    /\ hits' = <<>>
    /\ base_hits' = <<>>
    /\ batches' = <<>>
    /\ live_data' = <<>>
    /\ jira_calls' = <<>>
    /\ messages' = <<>>
    /\ resp' = NoneOpt
    /\ result' = NoneOpt
    /\ error' = ""
    /\ UNCHANGED <<jira, index, calls>>
    /\ UNCHANGED multiVars
    /\ UNCHANGED storeVars
    /\ UNCHANGED clientVars

AgainNext == AnswerNext \/ AskAgain

InitAgain ==
    \E d \in DsInputs : \E kn \in AgainKnobs(d) : Start(kn, Tracker(TRUE), SampleIndex(d))

SpecAgain == InitAgain /\ [][AgainNext]_vars

\* the blocks of a message list that carry a tag of the set
BlocksTagged(msgs, tags) == SelectSeq(AllBlocks(msgs), LAMBDA b : b.tag \in tags)

\* two message lists were compiled for the same question over the same hits
SameQuestionAndHits(a, b) ==
    BlocksTagged(a, {"question", "context"}) = BlocksTagged(b, {"question", "context"})

-----------------------------------------------------------------------------
(* Which blocks the messages hold *)

\* a language is asked for: the argument is given and is not the empty string
LanguageSet == ~IsNone(knobs.language) /\ Val(knobs.language) # <<>>

\* the blocks of the messages that carry the tag, in order
BlocksOf(tag) == SelectSeq(AllBlocks(messages), LAMBDA b : b.tag = tag)

\* 1 when the condition holds, 0 when not
OneIff(cond) == IF cond THEN 1 ELSE 0

\* C17: once the messages are built, the language directive is there exactly when a
\* language is set; the persona block, its reinforcement and the persona reminder
\* exactly when a persona is active; the format lock twice (in the first system
\* message and again after the context, the same block both times) exactly when the
\* multi-section format is asked for; the humor rule exactly when the joke flag is
\* set; one context block and one base block always; and the last message is the only
\* one of role user and holds the question alone.
C17_BlocksFollowKnobs ==
    messages # <<>> =>
        /\ Count(messages, "language") = OneIff(LanguageSet)
        /\ Count(messages, "persona") = OneIff(PersonaActive)
        /\ Count(messages, "persona_reinforcement") = OneIff(PersonaActive)
        /\ Count(messages, "persona_reminder") = OneIff(PersonaActive)
        /\ Count(messages, "format_lock") = 2 * OneIff(knobs.multi_format)
        /\ knobs.multi_format =>
              /\ BlocksOf("format_lock")[1] = BlocksOf("format_lock")[2]
              /\ BlocksOf("format_lock")[1] \in {messages[1].content[i] :
                                                    i \in 1..Len(messages[1].content)}
              /\ messages[3].content = <<BlocksOf("format_lock")[2]>>
        /\ Count(messages, "humor") = OneIff(knobs.patricize)
        /\ Count(messages, "context") = 1
        /\ messages[2].content = BlocksOf("context")
        /\ Count(messages, "base") = 1
        /\ messages[Len(messages)] =
              Message("user", <<Block("question", <<knobs.question.text>>)>>)
        /\ \A i \in 1..(Len(messages) - 1) : messages[i].role = "system"

\* C17 witness: every knob set (French, the yoda persona, the multi-section format,
\* the joke), and messages that hold every block
C17_Witness ==
    /\ pc = "call"
    /\ knobs.language = Some(S_fr_CA)
    /\ knobs.character = Some(S_yoda)
    /\ knobs.multi_format
    /\ knobs.patricize
    /\ Len(messages) = 5
    /\ Count(messages, "language") = 1
    /\ Count(messages, "format_lock") = 2
    /\ Count(messages, "persona_reminder") = 1

-----------------------------------------------------------------------------
(* JiraClient._get: the retry decorator *)

\* stop_after_attempt(5)
StopAfterAttempt == 5

\* what one attempt (session.get, raise_for_status, json) can meet: a good response,
\* an HTTPError for a status, a ConnectionError, a Timeout, or an exception that is
\* not a requests.RequestException
HttpOutcomes ==
    {"ok", "HTTPError 429", "HTTPError 503", "HTTPError 404", "HTTPError 401",
     "ConnectionError", "Timeout", "other"}

\* retry_if_exception_type(requests.RequestException)
RetryIf(outcome) == outcome \notin {"ok", "other"}

\* one attempt of _get: a good response is returned; a failure the retry condition
\* accepts is followed by a wait unless this was the last attempt allowed; every
\* other failure, and the last one, is raised (reraise=True)
GetAttempt ==
    /\ pc = "http"
    /\ http.state = "trying"
    /\ \E outcome \in HttpOutcomes :
          http' = [seen  |-> Append(http.seen, outcome),
                   state |-> IF outcome = "ok" THEN "returned"
                             ELSE IF RetryIf(outcome) /\ Len(http.seen) + 1 < StopAfterAttempt
                             THEN "waiting"
                             ELSE "raised"]
    /\ UNCHANGED <<crawl, pager, graph>>
    /\ UNCHANGED answerVars
    /\ UNCHANGED multiVars
    /\ UNCHANGED storeVars

\* wait_exponential(multiplier=1, min=2, max=10): the sleep before the next attempt
GetWait ==
    /\ pc = "http"
    /\ http.state = "waiting"
    /\ http' = [http EXCEPT !.state = "trying"]
    /\ UNCHANGED <<crawl, pager, graph>>
    /\ UNCHANGED answerVars
    /\ UNCHANGED multiVars
    /\ UNCHANGED storeVars

GetNext == GetAttempt \/ GetWait

\* _get is called
InitGet ==
    /\ knobs = DefaultKnobs
    /\ jira = Tracker(TRUE)
    /\ index = EmptyIndex
    /\ pc = "http"
    /\ hits = <<>>
    /\ base_hits = <<>>
    /\ batches = <<>>
    /\ live_data = <<>>
    /\ jira_calls = <<>>
    /\ messages = <<>>
    /\ calls = <<>>
    /\ resp = NoneOpt
    /\ result = NoneOpt
    /\ error = ""
    /\ MultiIdle
    /\ disk = NoFile
    /\ ixerr = ""
    /\ http = [state |-> "trying", seen |-> <<>>]
    /\ crawl = [FlexStart EXCEPT !.state = "idle"]
    /\ pager = PagerIdle
    /\ graph = GraphIdle

SpecGet == InitGet /\ [][GetNext]_vars

\* the failures of the transient class: rate limit and server unavailable
Transient == {"HTTPError 429", "HTTPError 503"}

\* C18: a request is attempted again only after a failure of the transient class: every
\* attempt that was followed by a wait or by another attempt met a rate-limit or a
\* server-unavailable failure, and no more than five attempts are made.
C18_RetryOnlyTransient ==
    /\ Len(http.seen) <= StopAfterAttempt
    /\ \A i \in 1..Len(http.seen) :
          (i < Len(http.seen) \/ http.state = "waiting") => http.seen[i] \in Transient

-----------------------------------------------------------------------------
(* Enrichment, batch by batch *)

\* the keys of the tracker calls that were answered
AnsweredKeys ==
    UNION {jira_calls[i].keys : i \in {j \in 1..Len(jira_calls) : jira_calls[j].outcome = "ok"}}

\* C19: a batch that fails, in the call or in the reading of its response, costs only
\* its own keys their overlay: when retrieval returns, every hit whose key went out in
\* a batch the tracker answered, and is an issue of the tracker, carries the live
\* fields, whatever happened to the other batches.
C19_BatchFailureIsolated ==
    (pc = "dedupe" /\ jira_calls # <<>>) =>
        \A i \in 1..Len(hits) :
            (Truthy(HitKey(hits[i])) /\ HitKey(hits[i]) \in AnsweredKeys \cap DOMAIN jira.issues) =>
                LiveFields \subseteq DOMAIN hits[i]

\* the keys that go to the refresh: those cited in the question and those of the hits
RefreshKeys == {k \in CandidateKeys(knobs.question, base_hits) : Truthy(k)}

\* the least number of batches of batch_size that hold n keys
BatchesFor(n) == (n + BatchSize - 1) \div BatchSize

\* C20: when a refresh has run, the tracker calls made split the candidate keys: every
\* key went out in exactly one call, every call carried between 1 and 50 keys and asked
\* for the fields status, assignee, priority and updated only, and the number of calls
\* is the number of keys divided by 50, rounded up (none for no key).
C20_BatchedRefresh ==
    (pc = "dedupe" /\ ds = "jira" /\ jira.client) =>
        /\ Len(jira_calls) = BatchesFor(Cardinality(RefreshKeys))
        /\ UNION {jira_calls[i].keys : i \in 1..Len(jira_calls)} = RefreshKeys
        /\ \A i, j \in 1..Len(jira_calls) :
              i # j => jira_calls[i].keys \cap jira_calls[j].keys = {}
        /\ \A i \in 1..Len(jira_calls) :
              /\ Cardinality(jira_calls[i].keys) \in 1..BatchSize
              /\ jira_calls[i].fields = FRESH_FIELDS

-----------------------------------------------------------------------------
(* The overlay merge (retrieve() lines 84-93) *)

\* the hit's key has an overlay in live_data
HasOverlay(h) == Truthy(HitKey(h)) /\ HitKey(h) \in DOMAIN live_data

\* C21: when a refresh has run and retrieval returns, there are as many hits as the
\* index gave, in the same order. A hit whose key has an overlay has its index fields
\* with their values (the four live fields aside) plus exactly the four live fields,
\* with the values of the overlay; a hit without an overlay is the index hit itself.
\* Keys cited in the question only add no hit.
C21_OverlayMerge ==
    (pc = "dedupe" /\ ds = "jira" /\ jira.client) =>
        /\ Len(hits) = Len(base_hits)
        /\ base_hits = Search(index, knobs.top_k)
        /\ \A i \in 1..Len(hits) :
              IF HasOverlay(base_hits[i])
              THEN /\ DOMAIN hits[i] = DOMAIN base_hits[i] \cup LiveFields
                   /\ \A f \in DOMAIN base_hits[i] \ LiveFields : hits[i][f] = base_hits[i][f]
                   /\ \A f \in LiveFields : hits[i][f] = live_data[HitKey(base_hits[i])][f]
              ELSE hits[i] = base_hits[i]

\* C21 witness: a question citing fifty keys, two hits, two batches; the first call is
\* answered and the second raises, so one hit has its overlay and the other has none
C21_Witness ==
    /\ pc = "dedupe"
    /\ Cardinality(knobs.question.keys) = BatchSize
    /\ Len(jira_calls) = 2
    /\ Len(hits) = 2
    /\ Len(base_hits) = 2
    /\ HasOverlay(base_hits[1]) /\ LiveFields \subseteq DOMAIN hits[1]
    /\ ~HasOverlay(base_hits[2]) /\ hits[2] = base_hits[2]
    /\ "status" \in DOMAIN base_hits[1]
    /\ hits[1].status = base_hits[1].status

-----------------------------------------------------------------------------
(* The escalation of the intensity (answer() lines 97-99) *)

\* the case of the escalation: yoda, the multi-section format, and medium asked for
\* (or nothing, or an unknown word)
Escalates ==
    knobs.character = Some(S_yoda) /\ knobs.multi_format /\ AskedIntensity = "medium"

\* the returned answer without its persona tag
Body ==
    SubSeq(Val(result).answer, Len(Val(knobs.character)) + 4, Len(Val(result).answer))

\* C22: with a persona, the quota written and the opener put before the answer are
\* those of heavy when yoda is asked with the multi-section format and medium; in
\* every other case (heavy or light asked, another persona, no multi-section format)
\* they are those of the intensity asked for.
C22_AutoEscalation ==
    ~IsNone(knobs.character) =>
        /\ messages # <<>> =>
              WrittenQuotas = {IF Escalates THEN "3" ELSE QuotaText(AskedIntensity)}
        /\ (pc = "done" /\ knobs.character = Some(S_yoda)) =>
              StartsWith(Body, <<"H", "r", "r", "r", "m", ".">>)
                  <=> (Escalates \/ AskedIntensity = "heavy")
        /\ (pc = "done" /\ knobs.character = Some(S_yoda)) =>
              StartsWith(Body, <<"H", "m", "m", ".">>)
                  <=> ~(Escalates \/ AskedIntensity = "heavy")
        /\ (pc = "done" /\ knobs.character = Some(S_pirate)) =>
              StartsWith(Body, <<"A", "r", "r", "r", "!">>) <=> AskedIntensity = "heavy"

\* C22 witness: yoda with the multi-section format and no intensity given, answered
\* with the quota 3 and the opener of heavy
C22_Witness ==
    /\ pc = "done"
    /\ knobs.character = Some(S_yoda)
    /\ knobs.multi_format
    /\ IsNone(knobs.intensity)
    /\ WrittenQuotas = {"3"}
    /\ StartsWith(Val(result).answer,
                  <<"(", "y", "o", "d", "a", ")", " ", "H", "r", "r", "r", "m", ".">>)

-----------------------------------------------------------------------------
(* The base instructions (_make_system_prompt) *)

\* the role arguments: none, the three roles with a text of their own, a role with
\* none, and a role spelled with a capital
BaseRoles ==
    {NoneOpt, Some("developer"), Some("manager"), Some("executive"), Some("qa"),
     Some("Developer")}

InitBase ==
    \E d \in DsInputs, mf \in BOOLEAN, r \in BaseRoles :
        Start([DefaultKnobs EXCEPT !.datasource = d, !.multi_format = mf, !.role = r],
              Tracker(TRUE), SampleIndex(d))

SpecBase == InitBase /\ [][AnswerNext]_vars

\* the text of the base block of the messages
BaseText == BlocksOf("base")[1].args[1][1]

\* the role is one of the three with a text of their own
KnownRole == knobs.role \in {Some("developer"), Some("manager"), Some("executive")}

\* C23 (amended): the messages hold one base block. For people and signins it is the
\* text of the kind (its four-section variant under the multi-section format),
\* whatever the role. For jira it is the text of the role when the role is developer,
\* manager or executive, with or without the multi-section format; the four-section
\* text when the multi-section format is asked for and the role is none of the three
\* (missing or any other word); the verbose-analyst text otherwise.
C23_BaseInstructions ==
    messages # <<>> =>
        /\ Count(messages, "base") = 1
        /\ ds = "people" =>
              BaseText = (IF knobs.multi_format THEN "people four sections" ELSE "people")
        /\ ds = "signins" =>
              BaseText = (IF knobs.multi_format THEN "signins four sections" ELSE "signins")
        /\ (ds = "jira" /\ KnownRole) =>
              BaseText = (IF knobs.role = Some("developer") THEN "jira developer"
                          ELSE IF knobs.role = Some("manager") THEN "jira manager"
                          ELSE "jira executive")
        /\ (ds = "jira" /\ ~KnownRole /\ knobs.multi_format) => BaseText = "jira four sections"
        /\ (ds = "jira" /\ ~KnownRole /\ ~knobs.multi_format) => BaseText = "jira verbose analyst"

\* C23 witness: jira, the manager role and the multi-section format, and the base
\* block is the manager's text
C23_Witness ==
    /\ pc = "call"
    /\ ds = "jira"
    /\ knobs.role = Some("manager")
    /\ knobs.multi_format
    /\ BaseText = "jira manager"

\* C23 as stated: on jira without one of the three roles, the four-section text is
\* chosen only when no role is given at all, and the verbose-analyst text otherwise.
C23_AsStated ==
    (messages # <<>> /\ ds = "jira" /\ ~KnownRole) =>
        BaseText = (IF knobs.multi_format /\ IsNone(knobs.role) THEN "jira four sections"
                    ELSE "jira verbose analyst")

-----------------------------------------------------------------------------
(* The format lock and the language (_format_lock_text, _language_directive) *)

S_fr_BE == <<"f", "r", "-", "B", "E">>

S_xx == <<"x", "x">>

S_fr_padded == <<" ", "f", "r", " ">>

\* the language arguments: none, empty, codes with a table, a code in capitals, a
\* regional code without a table, a code with a table for jira only, an unknown
\* code, aliases of the directive, and a code between spaces
LocaleInputs ==
    {NoneOpt, Some(<<>>), Some(S_fr), Some(S_fr_CA), Some(S_fr_BE), Some(S_es), Some(S_de),
     Some(S_pt_br), Some(S_xx), Some(S_qc), Some(S_francais), Some(S_english), Some(S_cn),
     Some(S_fr_padded)}

InitLocale ==
    \E d \in DsInputs, lang \in LocaleInputs, mf \in BOOLEAN :
        Start([DefaultKnobs EXCEPT !.datasource = d, !.language = lang, !.multi_format = mf],
              Tracker(TRUE), SampleIndex(d))

SpecLocale == InitLocale /\ [][AnswerNext]_vars

\* the heading table of the kind of record asked about
TableOfKind ==
    IF ds = "people" THEN HeadingsPeople
    ELSE IF ds = "signins" THEN HeadingsSignins ELSE HeadingsJira

\* the four headings the format lock of the messages names, in order
LockedHeadings == [i \in 1..4 |-> BlocksOf("format_lock")[1].args[i][2]]

\* the headings of a locale in the table of the kind: its own entry, else the entry of
\* the language before the dash, else the English entry
HeadingsOfLocale(loc) ==
    IF InMap(TableOfKind, loc) THEN Lookup(TableOfKind, loc)
    ELSE IF loc # BeforeDash(loc) /\ InMap(TableOfKind, BeforeDash(loc))
    THEN Lookup(TableOfKind, BeforeDash(loc))
    ELSE Lookup(TableOfKind, S_en)

\* the language argument in lower case, English when none is given
AskedLocale == IF LanguageSet THEN Lower(Val(knobs.language)) ELSE S_en

\* C24: under the multi-section format, for every kind and every language argument,
\* the format lock names four headings numbered 1 to 4, and they are, in order, the
\* entry of the kind's table for the locale asked for: a regional code without an
\* entry takes the entry of its base language, an unknown locale the English entry.
C24_FormatLockHeadings ==
    (messages # <<>> /\ knobs.multi_format) =>
        /\ Len(BlocksOf("format_lock")[1].args) = 4
        /\ \A i \in 1..4 : BlocksOf("format_lock")[1].args[i][1] = ToString(i)
        /\ LockedHeadings = HeadingsOfLocale(AskedLocale)
        /\ knobs.language = Some(S_fr_BE) => LockedHeadings = Lookup(TableOfKind, S_fr)
        /\ knobs.language = Some(S_xx) => LockedHeadings = Lookup(TableOfKind, S_en)
        /\ (knobs.language = Some(S_de) /\ ds = "jira") =>
              LockedHeadings[1] = "Detaillierte Zusammenfassung"
        /\ (knobs.language = Some(S_de) /\ ds = "people") =>
              LockedHeadings[1] = "People Overview"

\* C24 witness: people records asked about in Belgian French under the multi-section
\* format, and the format lock names the French headings of the people table
C24_Witness ==
    /\ pc = "call"
    /\ ds = "people"
    /\ knobs.multi_format
    /\ knobs.language = Some(S_fr_BE)
    /\ LockedHeadings = <<"Apercu des personnes", "Gestionnaires et responsables (inferes)",
                          "Signaux d'organisation", "Actions et suivis">>

\* the locale the language directive of the messages names, in lower case
DirectiveLocale == Lower(BlocksOf("language")[1].args[1])

\* C30: under the multi-section format with a language set, the headings of the format
\* lock are those of the locale the language directive names: the entry of that locale
\* in the kind's table, and the English entry only when the locale has none.
C30_LocaleAgreement ==
    (messages # <<>> /\ knobs.multi_format /\ LanguageSet) =>
        LockedHeadings = HeadingsOfLocale(DirectiveLocale)

-----------------------------------------------------------------------------
(* _flex_search: the crawl-time search with its retries *)

\* attempts = 6
FlexAttempts == 6

\* msg contains pat
Contains(msg, pat) ==
    \E i \in 1..(Len(msg) - Len(pat) + 1) : SubSeq(msg, i, i + Len(pat) - 1) = pat

\* a test that takes every failure for a transient one
AnyMessageTransient(msg) == TRUE

\* _flex_search line 80: `transient`, read off the lower-cased message
TransientMessage(msg) ==
    \E pat \in {" 429", "429 ", " 502", " 503", " 504", "service unavailable"} :
        Contains(msg, pat)

\* what a search call that was accepted can do: return the issues, or raise; an
\* HTTPError carries the message requests gives it (status, kind of error, reason
\* phrase, url), here in lower case as line 79 makes it
SearchOutcomes ==
    {[cls |-> "", msg |-> ""],
     [cls |-> "HTTPError 429", msg |-> "429 client error: too many requests for url: u"],
     [cls |-> "HTTPError 503", msg |-> "503 server error: service unavailable for url: u"],
     [cls |-> "HTTPError 404", msg |-> "404 client error: not found for url: u"],
     [cls |-> "ConnectionError", msg |-> "connection refused"],
     [cls |-> "TypeError", msg |-> "int() argument must be a string or a real number"]}

\* the call with start_at and max_results, which JiraClient.search does not accept
UnexpectedKeyword ==
    [cls |-> "TypeError", msg |-> "search() got an unexpected keyword argument 'start_at'"]

\* time.sleep(min(8, backoff * (2 ** i))), in tenths of a second
FlexDelay(i) == Min(80, 6 * (2 ^ i))

\* one pass of the loop of _flex_search: the call with the new signature, on a
\* TypeError the call with the old one, on a TypeError again the plain call; then the
\* result is returned, or the failure is slept on and the loop goes on, or it is raised
FlexAttempt ==
    /\ pc = "crawl"
    /\ crawl.state = "trying"
    /\ \E o2, o3 \in SearchOutcomes :
          LET made == <<[sig |-> "new", outcome |-> UnexpectedKeyword],
                        [sig |-> "old", outcome |-> o2]>>
                      \o (IF o2.cls = "TypeError" THEN <<[sig |-> "plain", outcome |-> o3]>>
                          ELSE <<>>)
              final == made[Len(made)].outcome
          IN  /\ o2.cls # "TypeError" => o3 = o2
              /\ crawl' =
                    IF final.cls = ""
                    THEN [crawl EXCEPT !.log = @ \o made, !.ends = Append(@, final),
                                       !.state = "returned"]
                    ELSE IF crawl.i < FlexAttempts - 1 /\ TransientMessage(final.msg)
                    THEN [crawl EXCEPT !.log = @ \o made, !.ends = Append(@, final),
                                       !.slept = Append(@, FlexDelay(crawl.i)),
                                       !.i = @ + 1]
                    ELSE [crawl EXCEPT !.log = @ \o made, !.ends = Append(@, final),
                                       !.state = "raised"]
    /\ UNCHANGED <<http, pager, graph>>
    /\ UNCHANGED answerVars
    /\ UNCHANGED multiVars
    /\ UNCHANGED storeVars

\* crawl_and_build calls _flex_search
InitFlex ==
    /\ knobs = DefaultKnobs
    /\ jira = Tracker(TRUE)
    /\ index = EmptyIndex
    /\ pc = "crawl"
    /\ hits = <<>>
    /\ base_hits = <<>>
    /\ batches = <<>>
    /\ live_data = <<>>
    /\ jira_calls = <<>>
    /\ messages = <<>>
    /\ calls = <<>>
    /\ resp = NoneOpt
    /\ result = NoneOpt
    /\ error = ""
    /\ MultiIdle
    /\ StoreIdle
    /\ http = [state |-> "idle", seen |-> <<>>]
    /\ crawl = FlexStart
    /\ pager = PagerIdle
    /\ graph = GraphIdle

SpecFlex == InitFlex /\ [][FlexAttempt]_vars

\* the failures of the transient class: rate limit and server unavailable
TransientClasses == {"HTTPError 429", "HTTPError 503"}

\* C25 (amended): _flex_search makes at most six passes. A pass is followed by another
\* only when it ended in a rate-limit or server-unavailable failure, after a sleep of
\* 0.6 s doubled per pass and capped at 8 s; a pass that ends in any other failure
\* raises it at once, the sixth pass raises a transient failure too, and the issues
\* are returned only by a pass whose search succeeded. Within a pass, a search that
\* raises a TypeError is followed by a search with the next older signature.
C25_FlexSearchRetry ==
    /\ Len(crawl.ends) <= FlexAttempts
    /\ Len(crawl.slept) = crawl.i
    /\ \A k \in 1..Len(crawl.slept) :
          /\ crawl.slept[k] = (IF k <= 4 THEN 6 * (2 ^ (k - 1)) ELSE 80)
          /\ crawl.ends[k].cls \in TransientClasses
    /\ crawl.state = "raised" =>
          /\ crawl.ends[Len(crawl.ends)].cls # ""
          /\ \/ crawl.ends[Len(crawl.ends)].cls \notin TransientClasses
             \/ Len(crawl.ends) = FlexAttempts
    /\ crawl.state = "returned" => crawl.ends[Len(crawl.ends)].cls = ""
    /\ crawl.state = "trying" => Len(crawl.ends) = crawl.i
    /\ \A k \in 1..Len(crawl.log) :
          (k < Len(crawl.log) /\ crawl.log[k].outcome.cls \notin TransientClasses) =>
              /\ crawl.log[k].outcome.cls = "TypeError"
              /\ crawl.log[k].sig # "plain"
              /\ crawl.log[k + 1].sig = (IF crawl.log[k].sig = "new" THEN "old" ELSE "plain")

\* C25 witness: five passes ended in a transient failure and were slept on, and the
\* sixth ended in one too and raised it
C25_Witness ==
    /\ crawl.state = "raised"
    /\ Len(crawl.ends) = FlexAttempts
    /\ crawl.slept = <<6, 12, 24, 48, 80>>
    /\ crawl.ends[FlexAttempts].cls = "HTTPError 503"

\* C25 as stated: a search that reached the tracker and failed is followed by another
\* search only when its failure is of the transient class.
C25_AsStated ==
    \A k \in 1..Len(crawl.log) :
        (k < Len(crawl.log) /\ crawl.log[k].sig # "new") =>
            crawl.log[k].outcome.cls \in TransientClasses

-----------------------------------------------------------------------------
(* The identity key of a hit, kind by kind (answer() lines 113-134) *)

\* the value of the first of `fields` that the hit carries non-empty, else None
RECURSIVE FirstNonEmpty(_, _)
FirstNonEmpty(h, fields) ==
    IF fields = <<>> THEN PyNone
    ELSE IF Head(fields) \in DOMAIN h /\ h[Head(fields)] \notin {PyNone, ""}
         THEN h[Head(fields)]
         ELSE FirstNonEmpty(h, Tail(fields))

\* principal, timestamp and application joined by bars, a missing part printed as None
Composite(h) ==
    Fmt(Get(h, "userPrincipalName")) \o "|" \o Fmt(Get(h, "createdDateTime"))
        \o "|" \o Fmt(Get(h, "appDisplayName"))

\* the key with every fallback: the legacy key of a work item, the document text of
\* an identity
FullKey(h, d) ==
    IF d = "people"
    THEN FirstNonEmpty(h, <<"userPrincipalName", "mail", "displayName", "id", "document">>)
    ELSE IF d = "signins"
    THEN (IF FirstNonEmpty(h, <<"id">>) # PyNone THEN h["id"] ELSE Composite(h))
    ELSE FirstNonEmpty(h, <<"key", "issue_key">>)

\* the key over the four identity fields, the event identifier or composite, the
\* record key
StatedKey(h, d) ==
    IF d = "people"
    THEN FirstNonEmpty(h, <<"userPrincipalName", "mail", "displayName", "id">>)
    ELSE IF d = "signins"
    THEN (IF FirstNonEmpty(h, <<"id">>) # PyNone THEN h["id"] ELSE Composite(h))
    ELSE FirstNonEmpty(h, <<"key">>)

\* the positions of hs that no earlier position collapses, under the key K and the
\* rule `sameKey` for when two keys collapse
Survivors(hs, K(_), sameKey(_, _)) ==
    {j \in 1..Len(hs) : \A i \in 1..(j - 1) : ~sameKey(K(hs[i]), K(hs[j]))}

\* C26: the identity key is, for a work item, the record key or else the legacy
\* issue key; for an identity, the first non-empty of principal name, email, display
\* name, raw identifier and document text; for an authentication event, the event
\* identifier or else the composite of principal, timestamp and application (never
\* empty). A hit is dropped exactly when an earlier hit has the same non-empty key;
\* hits with no key are all kept.
C26_IdentityKey ==
    [][DedupeHits =>
          LET K(h) == FullKey(h, ds)
              same(a, b) == a # PyNone /\ a = b
          IN  IsSelection(hits', hits, Survivors(hits, K, same))]_vars

\* C26 witness: two identity hits with the same principal name and different display
\* names came from the index, and dedup has kept the first only
C26_Witness ==
    /\ pc = "prompt"
    /\ ds = "people"
    /\ Len(index.meta) = 2
    /\ FirstNonEmpty(index.meta[1], <<"userPrincipalName">>) # PyNone
    /\ Get(index.meta[1], "userPrincipalName") = Get(index.meta[2], "userPrincipalName")
    /\ Get(index.meta[1], "displayName") # Get(index.meta[2], "displayName")
    /\ Len(hits) = 1
    /\ Get(hits[1], "displayName") = Get(index.meta[1], "displayName")

\* C26 as stated: a hit is dropped exactly when an earlier hit has an equal key, the
\* key being the record key, the first non-empty of the four identity fields, or the
\* event identifier or composite
C26_AsStated ==
    [][DedupeHits =>
          LET K(h) == StatedKey(h, ds)
              same(a, b) == a = b
          IN  IsSelection(hits', hits, Survivors(hits, K, same))]_vars

-----------------------------------------------------------------------------
(* MultiSourceRetriever.retrieve over the same indexers in another order *)

\* retrieve(query, k) as one function of the indexer list: the loop of lines 23-32
\* ends at its first indexer, the return of lines 35-36 is reached over no indexer
RetrieveOutcome(ixs, k) ==
    IF ixs = <<>>
    THEN [state |-> "returned", value |-> MergedTopK(<<>>, k), error |-> ""]
    ELSE [state |-> "raised", value |-> <<>>,
          error |-> IF ~ixs[1].loaded THEN "RuntimeError" ELSE UnpackError(Search(ixs[1], k))]

\* the orders in which n indexers can be configured
Orders(n) == {p \in [1..n -> 1..n] : \A i, j \in 1..n : p[i] = p[j] => i = j}

Reordered(ixs, p) == [i \in 1..Len(ixs) |-> ixs[p[i]]]

\* retrieve() as the actions run it ends as retrieve() the function does
RetrieveAgrees ==
    (mret.state \in {"returned", "raised"}) => mret = RetrieveOutcome(indexers, mq.k)

\* C27: when retrieve(query, k) has ended over two or more loaded indexers, it has
\* returned a merged list, and over every other order of the same indexers it
\* returns that same list.
C27_OrderIndependent ==
    (/\ mret.state \in {"returned", "raised"}
     /\ Len(indexers) >= 2
     /\ \A n \in 1..Len(indexers) : indexers[n].loaded)
        => /\ mret.state = "returned"
           /\ \A p \in Orders(Len(indexers)) :
                  RetrieveOutcome(Reordered(indexers, p), mq.k) = mret

-----------------------------------------------------------------------------
(* JiraClient.search: the pagination loop *)

S_order_by == <<"O", "R", "D", "E", "R", " ", "B", "Y", " ", "u", "p", "d", "a", "t", "e", "d",
                " ", "D", "E", "S", "C">>

S_jql == <<"p", "=", "X">>

\* search(): the default of `batch`
DefaultBatch == 200

\* search(): Jira's cap on the page size
PageCap == 1000

\* search(): sys.maxsize, as the largest integer the model has
SysMaxsize == 2147483647

\* the largest total a page reports
MaxTotal == 3

\* the JQL with its blanks kept, for the loop that forgets the default
EffectiveJqlAsGiven(jql) == IF IsNone(jql) THEN <<>> ELSE Val(jql)

\* search(): `(jql or "").strip() or "ORDER BY updated DESC"`
EffectiveJql(jql) ==
    LET given    == IF IsNone(jql) \/ Val(jql) = <<>> THEN <<>> ELSE Val(jql)
        stripped == Strip(given)
    IN  IF stripped = <<>> THEN S_order_by ELSE stripped

\* search(): `",".join(fields)`
RECURSIVE JoinFields(_)
JoinFields(fs) ==
    IF fs = <<>> THEN ""
    ELSE IF Len(fs) = 1 THEN fs[1]
    ELSE fs[1] \o "," \o JoinFields(Tail(fs))

\* search(): `params` of one page request
PageParams(args, effective_jql, start_at) ==
    [jql        |-> effective_jql,
     startAt    |-> start_at,
     maxResults |-> Min(args.batch, PageCap),
     fields     |-> IF ~IsNone(args.fields) /\ Val(args.fields) # <<>>
                    THEN Some(JoinFields(Val(args.fields))) ELSE NoneOpt,
     expand     |-> IF ~IsNone(args.expand) /\ Val(args.expand) # ""
                    THEN args.expand ELSE NoneOpt]

\* what one _get of the search endpoint can come back with: a JSON page (its total an
\* integer, missing, or null), a string, or an exception out of _get
UpstreamPages ==
    [kind : {"json"}, total_kind : {"int"}, total : 0..MaxTotal,
     issues : {<<>>, <<"A">>, <<"B">>, <<"A", "B">>}]
    \cup [kind : {"json"}, total_kind : {"absent", "null"}, total : {0}, issues : {<<"A">>}]
    \cup [kind : {"str", "HTTPError"}, total_kind : {"absent"}, total : {0}, issues : {<<>>}]

\* search(): one pass of the while loop, up to the next test of `start_at < total`
SearchPage ==
    /\ pc = "search"
    /\ pager.state = "paging"
    /\ \E page \in UpstreamPages :
          LET params == PageParams(pager.args, pager.effective_jql, pager.start_at)
              asked  == [pager EXCEPT !.requests = Append(@, params)]
              total  == IF page.total_kind = "int" THEN page.total ELSE 0
              start  == pager.start_at + Len(page.issues)
          IN  pager' =
                  IF page.kind = "HTTPError"
                  THEN [asked EXCEPT !.state = "raised", !.error = "HTTPError"]
                  ELSE IF page.kind = "str"
                  THEN [asked EXCEPT !.state = "raised", !.error = "RuntimeError"]
                  ELSE IF page.total_kind = "null"
                  THEN [asked EXCEPT !.state = "raised", !.error = "TypeError"]
                  ELSE IF page.issues = <<>>
                  THEN [asked EXCEPT !.state = "exhausted", !.total = total,
                                     !.pages = Append(@, page)]
                  ELSE [asked EXCEPT !.state = IF start < total THEN "paging" ELSE "exhausted",
                                     !.total = total,
                                     !.pages = Append(@, page),
                                     !.yielded = @ \o page.issues,
                                     !.start_at = start]
    /\ UNCHANGED <<http, crawl, graph>>
    /\ UNCHANGED answerVars
    /\ UNCHANGED multiVars
    /\ UNCHANGED storeVars

JqlInputs ==
    {NoneOpt, Some(<<>>), Some(<<" ", " ">>), Some(S_jql), Some(<<" ">> \o S_jql \o <<" ">>)}

\* the other arguments of the calls: the defaults, a batch above the cap with fields
\* and expand, a batch of one with an empty field list
SearchShapes ==
    {[fields |-> NoneOpt, batch |-> DefaultBatch, expand |-> NoneOpt],
     [fields |-> Some(<<"summary", "status">>), batch |-> PageCap + 500,
      expand |-> Some("changelog")],
     [fields |-> Some(<<>>), batch |-> 1, expand |-> NoneOpt]}

\* search(): the locals before the loop
PagerStart(args) ==
    [PagerIdle EXCEPT !.state = "paging", !.args = args, !.total = SysMaxsize,
                      !.effective_jql = EffectiveJql(args.jql)]

InitSearch ==
    /\ knobs = DefaultKnobs
    /\ jira = Tracker(TRUE)
    /\ index = EmptyIndex
    /\ pc = "search"
    /\ hits = <<>>
    /\ base_hits = <<>>
    /\ batches = <<>>
    /\ live_data = <<>>
    /\ jira_calls = <<>>
    /\ messages = <<>>
    /\ calls = <<>>
    /\ resp = NoneOpt
    /\ result = NoneOpt
    /\ error = ""
    /\ MultiIdle
    /\ StoreIdle
    /\ http = [state |-> "idle", seen |-> <<>>]
    /\ crawl = [FlexStart EXCEPT !.state = "idle"]
    /\ graph = GraphIdle
    /\ \E j \in JqlInputs, sh \in SearchShapes :
          pager = PagerStart([jql |-> j, fields |-> sh.fields, batch |-> sh.batch,
                              expand |-> sh.expand])

\* the loop runs whenever the caller keeps drawing from the iterator
SpecSearch == InitSearch /\ [][SearchPage]_vars /\ WF_vars(SearchPage)

RECURSIVE IssuesOf(_)
IssuesOf(pages) == IF pages = <<>> THEN <<>> ELSE Head(pages).issues \o IssuesOf(Tail(pages))

\* blank or missing: None, or nothing but white space
BlankJql(jql) == IsNone(jql) \/ \A i \in 1..Len(Val(jql)) : Val(jql)[i] \in Whitespace

\* after the n-th page the loop goes on: the page had issues, and fewer have been
\* yielded than the total it reports
GoesOn(pages, n) ==
    /\ pages[n].issues # <<>>
    /\ Len(IssuesOf(SubSeq(pages, 1, n))) < pages[n].total

PaginationLog ==
    /\ pager.yielded = IssuesOf(pager.pages)
    /\ \A n \in 1..Len(pager.requests) :
          /\ n - 1 <= Len(pager.pages)
          /\ pager.requests[n].startAt = Len(IssuesOf(SubSeq(pager.pages, 1, n - 1)))
          /\ pager.requests[n].maxResults =
                (IF pager.args.batch <= 1000 THEN pager.args.batch ELSE 1000)
          /\ pager.requests[n].jql =
                (IF BlankJql(pager.args.jql) THEN S_order_by ELSE Strip(Val(pager.args.jql)))
    /\ \A n \in 1..(Len(pager.pages) - 1) : GoesOn(pager.pages, n)
    /\ pager.state = "paging" =>
          /\ Len(pager.requests) = Len(pager.pages)
          /\ pager.pages # <<>> => GoesOn(pager.pages, Len(pager.pages))
    /\ pager.state = "exhausted" =>
          /\ Len(pager.requests) = Len(pager.pages)
          /\ ~GoesOn(pager.pages, Len(pager.pages))
    /\ pager.state = "raised" => Len(pager.requests) = Len(pager.pages) + 1

-----------------------------------------------------------------------------
(* MSGraphClient.query_msgraph: the paging loop and its handlers *)

\* the most failed requests one call is followed through
MaxFailed == 5

\* the most records the pages of one call hold together
MaxRecords == 2

\* what one session.get can come back with: a JSON object with its records and next
\* link, a JSON value that is not an object, or an exception (an HTTPError with its
\* status, None when it carries no response)
GraphResponses ==
    [kind : {"ok"}, value : {<<>>, <<"r">>}, next : {PyNone, "L1", "L2"}]
    \cup [kind : {"not a dict", "ChunkedEncodingError", "HTTPError 429", "HTTPError 401",
                  "HTTPError 400", "HTTPError 500", "HTTPError None", "ConnectionError",
                  "ProtocolError"},
          value : {<<>>}, next : {PyNone}]

\* query_msgraph: the locals before the loop
GraphStart(max_retries) ==
    [GraphIdle EXCEPT !.state = "paging", !.max_retries = max_retries]

\* query_msgraph: `retries += 1; if retries > max_retries: raise; time.sleep(...)`
Counted(g, kind) ==
    [g EXCEPT !.retries = @ + 1, !.failed = @ + 1,
              !.state = IF g.retries + 1 > g.max_retries THEN "raised" ELSE "paging",
              !.error = IF g.retries + 1 > g.max_retries THEN kind ELSE ""]

\* query_msgraph: one pass of `while True`
GraphRequest ==
    /\ pc = "graph"
    /\ graph.state = "paging"
    /\ \E r \in GraphResponses, token_ok \in BOOLEAN :
          /\ r.kind \in {"ok", "not a dict"} => Len(graph.results) + Len(r.value) <= MaxRecords
          /\ r.kind \notin {"ok", "not a dict"} => graph.failed < MaxFailed
          /\ r.kind # "HTTPError 401" => token_ok
          /\ graph' =
                IF r.kind \in {"ok", "not a dict"}
                THEN IF r.next = PyNone \/ graph.old_link = r.next
                     THEN [graph EXCEPT !.results = @ \o r.value, !.next_link = r.next,
                                        !.state = "returned"]
                     ELSE [graph EXCEPT !.results = @ \o r.value, !.next_link = r.next,
                                        !.old_link = r.next]
                ELSE IF r.kind \in {"ChunkedEncodingError", "HTTPError 429", "ConnectionError",
                                    "ProtocolError"}
                THEN Counted(graph, r.kind)
                ELSE IF r.kind = "HTTPError 401"
                THEN IF token_ok THEN [graph EXCEPT !.failed = @ + 1]
                     ELSE [graph EXCEPT !.failed = @ + 1, !.state = "raised",
                                        !.error = "RuntimeError"]
                ELSE [graph EXCEPT !.failed = @ + 1, !.state = "returned"]
    /\ UNCHANGED <<http, crawl, pager>>
    /\ UNCHANGED answerVars
    /\ UNCHANGED multiVars
    /\ UNCHANGED storeVars

\* query_msgraph is called with max_retries 0, 1 or 2
InitGraph ==
    /\ knobs = DefaultKnobs
    /\ jira = Tracker(FALSE)
    /\ index = EmptyIndex
    /\ pc = "graph"
    /\ hits = <<>>
    /\ base_hits = <<>>
    /\ batches = <<>>
    /\ live_data = <<>>
    /\ jira_calls = <<>>
    /\ messages = <<>>
    /\ calls = <<>>
    /\ resp = NoneOpt
    /\ result = NoneOpt
    /\ error = ""
    /\ MultiIdle
    /\ StoreIdle
    /\ http = [state |-> "idle", seen |-> <<>>]
    /\ crawl = [FlexStart EXCEPT !.state = "idle"]
    /\ pager = PagerIdle
    /\ \E max_retries \in 0..2 : graph = GraphStart(max_retries)

SpecGraph == InitGraph /\ [][GraphRequest]_vars

\* C29: in query_msgraph every failed request counts against max_retries or ends the
\* paging loop: while the loop runs, the failed requests made so far are the retries
\* counted, and a call never makes more than max_retries + 1 failed requests.
C29_FailuresBounded ==
    /\ graph.state = "paging" => graph.failed = graph.retries
    /\ graph.failed <= graph.max_retries + 1

\* without the 401 handler the count holds: the failed requests other than 401s
\* are bounded as stated
OtherFailuresBounded ==
    graph.retries <= graph.max_retries + 1
====
